---- MODULE Spec2Model ----
(***************************************************************************)
(* Lifecycle of the collector Application (service package): execute()     *)
(* sets up telemetry, loads the configuration, starts the extensions,      *)
(* builds and starts the pipelines (exporters, processors, receivers),     *)
(* notifies the extensions that the pipeline is ready, waits for one       *)
(* shutdown event and tears everything down.  The serving goroutine of a   *)
(* configui extension runs concurrently with the controller and reports a  *)
(* fatal error to the host when its HTTP server fails.                     *)
(***************************************************************************)
EXTENDS Integers, Sequences, FiniteSets, TLC

(* ---- bounds of the model ---- *)
MaxExt == 2
MaxRev == 2
MaxPipelines == 2
MaxExporters == 2
MaxProcessors == 1
MaxReceivers == 1
MaxFactories == 3
MaxConfigs == 1
MaxOptions == 2
MaxSpans == 1
MaxRequests == 3

MaxOcSpans == 3

(* ---- errors: nil, or a chain of wrapped messages, outermost first ---- *)
Nil == <<>>

Errorf(msg, id) == <<[msg |-> msg, id |-> id]>>

Wrap(err, msg, id) == <<[msg |-> msg, id |-> id]>> \o err

RECURSIVE Flatten(_)
Flatten(errs) == IF errs = <<>> THEN <<>> ELSE Head(errs) \o Flatten(Tail(errs))

CombineErrors(errs) == <<[msg |-> "combined", id |-> Len(errs)]>> \o Flatten(errs)

Mentions(err, msg, id) == \E i \in 1..Len(err) : err[i] = [msg |-> msg, id |-> id]

HasMsg(err, msg) == \E i \in 1..Len(err) : err[i].msg = msg

(* ---- configurations ---- *)
ExtNames == 1..MaxExt

ExtTypes == {"plain", "watcher", "configui", "unknown"}

(* app.factories.Extensions: the types an extension factory is registered for *)
ExtensionFactories == {"plain", "watcher", "configui"}

(* the extension types whose instances implement extension.PipelineWatcher *)
IsPipelineWatcher(type) == type = "watcher"

(* the extension types whose Start launches a serving goroutine *)
HasServer(type) == type = "configui"

Range(s) == {s[i] : i \in 1..Len(s)}

(* the lists of at most n distinct names of S, in increasing order *)
DistinctSeqs(S, n) ==
    UNION {{s \in [1..k -> S] : \A i, j \in 1..k : i < j => s[i] < s[j]} : k \in 0..n}

(* A configuration: the service's extension list, the top-level extension  *)
(* map (name -> type, for the configured names), the number of exporters,  *)
(* processors and receivers of the pipelines, and the kind ("none" when    *)
(* there is none) of a component that a pipeline references by a name      *)
(* the top-level map of its kind has no entry for.                         *)
Configs ==
    {c \in [svcExtensions : DistinctSeqs(ExtNames, MaxExt),
            extensions : UNION {[D -> ExtTypes] : D \in SUBSET ExtNames},
            nExporters : 1..MaxExporters,
            nProcessors : 0..MaxProcessors,
            nReceivers : 1..MaxReceivers,
            nPipelines : {1},
            undefinedRef : {"none", "receiver", "processor", "exporter"}] :
        DOMAIN c.extensions \subseteq Range(c.svcExtensions)}

(* the configuration of the runs that are observed next to a config provider *)
WatchedConfig ==
    [svcExtensions |-> <<1, 2>>, extensions |-> <<"watcher", "configui">>,
     nExporters |-> 1, nProcessors |-> 1, nReceivers |-> 1, nPipelines |-> 1,
     undefinedRef |-> "none"]

(* configurations in which several pipelines send to the same exporters:   *)
(* each of the nPipelines pipelines references every configured exporter   *)
SharedConfigs ==
    {[WatchedConfig EXCEPT !.nPipelines = p, !.nExporters = e] :
        p \in 1..MaxPipelines, e \in 1..MaxExporters}

NoConfig == [svcExtensions |-> <<>>, extensions |-> <<>>,
             nExporters |-> 0, nProcessors |-> 0, nReceivers |-> 0, nPipelines |-> 0,
             undefinedRef |-> "none"]

(* the names of the service's extension list without an entry in the       *)
(* top-level extension map, in the list's order                            *)
UndefinedExtensions(cfg) ==
    SelectSeq(cfg.svcExtensions, LAMBDA n : n \notin DOMAIN cfg.extensions)

(* the name under which a pipeline references the component that has no    *)
(* top-level entry: the one after the configured components of the kind    *)
UndefinedRefName(cfg) ==
    CASE cfg.undefinedRef = "receiver" -> cfg.nReceivers + 1
      [] cfg.undefinedRef = "processor" -> cfg.nProcessors + 1
      [] cfg.undefinedRef = "exporter" -> cfg.nExporters + 1
      [] OTHER -> 0

(* the exporters the pipelines reference, pipeline by pipeline *)
ExporterRefs(cfg) ==
    [i \in 1..(cfg.nPipelines * cfg.nExporters) |-> ((i - 1) % cfg.nExporters) + 1]

(* a list without the repetitions of its elements, in order of first occurrence *)
RECURSIVE Dedup(_)
Dedup(s) ==
    IF s = <<>> THEN <<>>
    ELSE LET front == Dedup(SubSeq(s, 1, Len(s) - 1))
             last == s[Len(s)]
         IN IF last \in Range(front) THEN front ELSE Append(front, last)

(* the exporters the builder builds: one for each exporter that some       *)
(* pipeline references, however many pipelines reference it                *)
ExporterNames(cfg) == Dedup(ExporterRefs(cfg))

(* validation of a loaded configuration: every name of the service's       *)
(* extension list and every component a pipeline references has an entry   *)
(* in its top-level map; the error names the first name that has none      *)
Validate(cfg) ==
    IF UndefinedExtensions(cfg) # <<>>
    THEN Errorf("service references extension which does not exist",
                UndefinedExtensions(cfg)[1])
    ELSE IF cfg.undefinedRef # "none"
    THEN Errorf("pipeline references " \o cfg.undefinedRef \o " which does not exist",
                UndefinedRefName(cfg))
    ELSE Nil

VARIABLES
    pc,          \* position of the controller inside execute()
    idx,         \* index of the loop the controller is in
    cfgFile,     \* the configuration the config file describes
    config,      \* app.config
    telemetry,   \* AppTelemetry: "none", "init" or "shutdown"
    extensions,  \* app.extensions: names of the started extensions, in order
    alive,       \* components whose Start succeeded and whose Shutdown was not called
    log,         \* calls made on components, in program order
    gstate,      \* serving goroutine of each extension
    waiting,     \* "none", or the result ("nil", "err") that the Shutdown of an
                 \* extension will return once its wait on stopCh ends
    readyClosed, \* readyChan is closed
    stopChan,    \* app.stopTestChan exists
    trigger,     \* the event that ended the Running wait
    errs,        \* errors accumulated by execute() during shutdown
    local,       \* errs of the shutdown function the controller is in
    ret,         \* value returned by execute(): NotReturned, Nil or an error
    source,      \* the document the sources of the config provider hold now
    watchCh,     \* what is pending on the provider's Watch channel
    lastResolvedConfig,   \* configProvider.lastResolvedConfig
    lastKnownGoodConfig,  \* configProvider.lastKnownGoodConfig
    got,         \* what the most recent Get resolved and returned
    reported,    \* the most recent call the provider made on its resolver
    acked,       \* history: the snapshot of the Get that the most recent
                 \* ConfigUpdateSucceeded acknowledged
    fMap,        \* what MakeFactoryMap was given and what it returned
    builder,     \* the receiver Builder that NewBuilder returned
    created,     \* the most recent Create call on builder and what it returned
    te,          \* what the exporter helper was given and what it returned
    teCall,      \* the most recent call on te and what it returned
    cfe,         \* a configUIExtension used on its own by a host
    otlp,        \* the most recent request to an OTLP/HTTP handler and the
                 \* responses written for it
    oc           \* the most recent call of the OpenCensus translator

appVars == <<pc, idx, cfgFile, config, telemetry, extensions, alive, log, gstate,
             waiting, readyClosed, stopChan, trigger, errs, local, ret>>

providerVars == <<source, watchCh, lastResolvedConfig, lastKnownGoodConfig, got,
                  reported, acked>>

receiverVars == <<fMap, builder, created>>

helperVars == <<te, teCall>>

libVars == <<receiverVars, helperVars, cfe, otlp, oc>>

vars == <<appVars, providerVars, libVars>>

NotReturned == <<[msg |-> "not returned", id |-> 0]>>

(* a library call that was not made *)
NoCall == [op |-> "none"]

(* a call made on a component, with its outcome *)
Ev(op, kind, id) == [op |-> op, kind |-> kind, id |-> id, failed |-> FALSE]

Failed(op, kind, id) == [op |-> op, kind |-> kind, id |-> id, failed |-> TRUE]

Comp(kind, id) == [kind |-> kind, id |-> id]

(* events of a builder stage: op on components 1..n of a kind, in order *)
StageEvents(op, kind, n) == [i \in 1..n |-> Ev(op, kind, i)]

StageComps(kind, n) == {Comp(kind, i) : i \in 1..n}

(* ---- the config provider: documents, configurations, snapshots ---- *)

(* The documents the sources can hold: a revision, and what is the matter  *)
(* with it: nothing ("valid"), its sources cannot be retrieved or merged   *)
(* ("unmergeable"), it does not unmarshal into a Config ("malformed"), or  *)
(* its service references an extension that is not configured ("invalid"). *)
Docs == [rev : 1..MaxRev, shape : {"valid", "unmergeable", "malformed", "invalid"}]

NoDoc == [rev |-> 0, shape |-> "none"]

(* the document the sources hold when the provider is created *)
InitialDoc == [rev |-> 1, shape |-> "valid"]

(* a nil byte slice *)
NoBytes == <<>>

(* retMap.MarshalToYAML(): the document as YAML bytes *)
ToYAML(doc) == <<"yaml", doc.rev, doc.shape>>

(* a nil *Config *)
NoCfg == [rev |-> 0, config |-> NoConfig]

(* configunmarshaler.Unmarshal: the typed Config of a document *)
Unmarshal(doc) ==
    [rev |-> doc.rev,
     config |-> [svcExtensions |-> <<1>>,
                 extensions |-> IF doc.shape = "invalid" THEN <<>> ELSE <<"plain">>,
                 nExporters |-> 1, nProcessors |-> 0, nReceivers |-> 1, nPipelines |-> 1,
                 undefinedRef |-> "none"]]

(* no Get was called yet *)
NoGet == [cfg |-> NoCfg, err |-> Nil, retMap |-> NoDoc, marshalled |-> FALSE]

(* the provider called nothing on its resolver yet *)
NoReport == [op |-> "none", args |-> <<>>]

(* the error with which the service reports that applying a Config failed *)
ApplyError == Errorf("cannot apply the configuration", 0)

(* the state after New(): nothing is set up; the configuration file       *)
(* describes one of the configurations cfgs                                *)
InitWith(cfgs) ==
    /\ source = InitialDoc
    /\ watchCh = "none"
    /\ lastResolvedConfig = NoBytes
    /\ lastKnownGoodConfig = NoBytes
    /\ got = NoGet
    /\ reported = NoReport
    /\ acked = NoBytes
    /\ pc = "setupTelemetry"
    /\ idx = 0
    /\ cfgFile \in cfgs
    /\ config = NoConfig
    /\ telemetry = "none"
    /\ extensions = <<>>
    /\ alive = {}
    /\ log = <<>>
    /\ gstate = [e \in ExtNames |-> "none"]
    /\ waiting = "none"
    /\ readyClosed = FALSE
    /\ stopChan = FALSE
    /\ trigger = "none"
    /\ errs = <<>>
    /\ local = <<>>
    /\ ret = NotReturned
    /\ fMap = NoCall
    /\ builder = NoCall
    /\ created = NoCall
    /\ te = NoCall
    /\ teCall = NoCall
    /\ cfe = NoCall
    /\ otlp = NoCall
    /\ oc = NoCall

Init == InitWith(Configs)

(* execute() returns err *)
Return(err) ==
    /\ pc' = "done"
    /\ ret' = err

(* an error returned by a component or a builder *)
ComponentError(id) == Errorf("component error", id)

(* ---- execute(): setup ---- *)

(* setupTelemetry: AppTelemetry.init succeeds or fails *)
SetupTelemetry ==
    /\ pc = "setupTelemetry"
    /\ \/ /\ telemetry' = "init"
          /\ pc' = "loadConfig"
          /\ UNCHANGED ret
       \/ /\ Return(Wrap(ComponentError(0), "failed to initialize telemetry", 0))
          /\ UNCHANGED telemetry
    /\ UNCHANGED <<idx, cfgFile, config, extensions, alive, log, gstate, waiting,
                   readyClosed, stopChan, trigger, errs, local>>
    /\ UNCHANGED <<providerVars, libVars>>

(* faulty variant: config.Load returns the configuration without validating it *)
LoadConfigUnvalidated ==
    /\ pc = "loadConfig"
    /\ \/ /\ config' = cfgFile
          /\ pc' = "setupExtensions"
          /\ idx' = 1
          /\ UNCHANGED ret
       \/ /\ Return(Wrap(ComponentError(0), "cannot load configuration", 0))
          /\ UNCHANGED <<config, idx>>
    /\ UNCHANGED <<cfgFile, telemetry, extensions, alive, log, gstate, waiting,
                   readyClosed, stopChan, trigger, errs, local>>
    /\ UNCHANGED <<providerVars, libVars>>

(* setupConfigurationComponents: config.Load reads the file, which may     *)
(* fail, and validates the configuration; then app.config = cfg            *)
LoadConfig ==
    /\ pc = "loadConfig"
    /\ \/ /\ Validate(cfgFile) = Nil
          /\ config' = cfgFile
          /\ pc' = "setupExtensions"
          /\ idx' = 1
          /\ UNCHANGED ret
       \/ /\ Validate(cfgFile) # Nil
          /\ Return(Wrap(Validate(cfgFile), "cannot load configuration", 0))
          /\ UNCHANGED <<config, idx>>
       \/ /\ Return(Wrap(ComponentError(0), "cannot load configuration", 0))
          /\ UNCHANGED <<config, idx>>
    /\ UNCHANGED <<cfgFile, telemetry, extensions, alive, log, gstate, waiting,
                   readyClosed, stopChan, trigger, errs, local>>
    /\ UNCHANGED <<providerVars, libVars>>

SetupExtensionsFail(err) ==
    Return(Wrap(err, "cannot setup extensions", 0))

(* faulty variant: the loop does not check the extension for nil and goes   *)
(* on with the next name of the list                                       *)
SetupExtensionSkipsNil ==
    /\ pc = "setupExtensions"
    /\ idx <= Len(config.svcExtensions)
    /\ LET extName == config.svcExtensions[idx] IN
       IF extName \notin DOMAIN config.extensions
       THEN /\ SetupExtensionsFail(Errorf("extension is not configured", extName))
            /\ UNCHANGED <<idx, extensions, alive, log, gstate>>
       ELSE LET type == config.extensions[extName] IN
            IF type \notin ExtensionFactories
            THEN /\ SetupExtensionsFail(
                        Errorf("extension factory for type is not configured", extName))
                 /\ UNCHANGED <<idx, extensions, alive, log, gstate>>
            ELSE \/ /\ SetupExtensionsFail(
                           Wrap(ComponentError(extName), "failed to create extension", extName))
                    /\ log' = Append(log, Failed("Create", "extension", extName))
                    /\ UNCHANGED <<idx, extensions, alive, gstate>>
                 \/ /\ log' = Append(log, Ev("Create", "extension", extName))
                    /\ idx' = idx + 1
                    /\ UNCHANGED <<pc, ret, extensions, alive, gstate>>
                 \/ /\ SetupExtensionsFail(
                           Wrap(ComponentError(extName), "error starting extension", extName))
                    /\ log' = log \o <<Ev("Create", "extension", extName),
                                       Failed("Start", "extension", extName)>>
                    /\ UNCHANGED <<idx, extensions, alive, gstate>>
                 \/ /\ log' = log \o <<Ev("Create", "extension", extName),
                                       Ev("Start", "extension", extName)>>
                    /\ extensions' = Append(extensions, extName)
                    /\ alive' = alive \cup {Comp("extension", extName)}
                    /\ gstate' = IF HasServer(type)
                                 THEN [gstate EXCEPT ![extName] = "serving"]
                                 ELSE gstate
                    /\ idx' = idx + 1
                    /\ UNCHANGED <<pc, ret>>
    /\ UNCHANGED <<cfgFile, config, telemetry, waiting, readyClosed, stopChan,
                   trigger, errs, local>>
    /\ UNCHANGED <<providerVars, libVars>>

(* faulty variant: an extension whose type has no factory is skipped *)
SetupExtensionSkipsUnknownType ==
    /\ pc = "setupExtensions"
    /\ idx <= Len(config.svcExtensions)
    /\ LET extName == config.svcExtensions[idx] IN
       IF extName \notin DOMAIN config.extensions
       THEN /\ SetupExtensionsFail(Errorf("extension is not configured", extName))
            /\ UNCHANGED <<idx, extensions, alive, log, gstate>>
       ELSE LET type == config.extensions[extName] IN
            IF type \notin ExtensionFactories
            THEN /\ idx' = idx + 1
                 /\ UNCHANGED <<pc, ret, extensions, alive, log, gstate>>
            ELSE \/ /\ SetupExtensionsFail(
                           Wrap(ComponentError(extName), "failed to create extension", extName))
                    /\ log' = Append(log, Failed("Create", "extension", extName))
                    /\ UNCHANGED <<idx, extensions, alive, gstate>>
                 \/ /\ SetupExtensionsFail(
                           Errorf("factory produced a nil extension", extName))
                    /\ log' = Append(log, Ev("Create", "extension", extName))
                    /\ UNCHANGED <<idx, extensions, alive, gstate>>
                 \/ /\ SetupExtensionsFail(
                           Wrap(ComponentError(extName), "error starting extension", extName))
                    /\ log' = log \o <<Ev("Create", "extension", extName),
                                       Failed("Start", "extension", extName)>>
                    /\ UNCHANGED <<idx, extensions, alive, gstate>>
                 \/ /\ log' = log \o <<Ev("Create", "extension", extName),
                                       Ev("Start", "extension", extName)>>
                    /\ extensions' = Append(extensions, extName)
                    /\ alive' = alive \cup {Comp("extension", extName)}
                    /\ gstate' = IF HasServer(type)
                                 THEN [gstate EXCEPT ![extName] = "serving"]
                                 ELSE gstate
                    /\ idx' = idx + 1
                    /\ UNCHANGED <<pc, ret>>
    /\ UNCHANGED <<cfgFile, config, telemetry, waiting, readyClosed, stopChan,
                   trigger, errs, local>>
    /\ UNCHANGED <<providerVars, libVars>>

(* faulty variant: a started extension is put at the head of app.extensions *)
SetupExtensionPrepends ==
    /\ pc = "setupExtensions"
    /\ idx <= Len(config.svcExtensions)
    /\ LET extName == config.svcExtensions[idx] IN
       IF extName \notin DOMAIN config.extensions
       THEN /\ SetupExtensionsFail(Errorf("extension is not configured", extName))
            /\ UNCHANGED <<idx, extensions, alive, log, gstate>>
       ELSE LET type == config.extensions[extName] IN
            IF type \notin ExtensionFactories
            THEN /\ SetupExtensionsFail(
                        Errorf("extension factory for type is not configured", extName))
                 /\ UNCHANGED <<idx, extensions, alive, log, gstate>>
            ELSE \/ /\ SetupExtensionsFail(
                           Wrap(ComponentError(extName), "failed to create extension", extName))
                    /\ log' = Append(log, Failed("Create", "extension", extName))
                    /\ UNCHANGED <<idx, extensions, alive, gstate>>
                 \/ /\ SetupExtensionsFail(
                           Errorf("factory produced a nil extension", extName))
                    /\ log' = Append(log, Ev("Create", "extension", extName))
                    /\ UNCHANGED <<idx, extensions, alive, gstate>>
                 \/ /\ SetupExtensionsFail(
                           Wrap(ComponentError(extName), "error starting extension", extName))
                    /\ log' = log \o <<Ev("Create", "extension", extName),
                                       Failed("Start", "extension", extName)>>
                    /\ UNCHANGED <<idx, extensions, alive, gstate>>
                 \/ /\ log' = log \o <<Ev("Create", "extension", extName),
                                       Ev("Start", "extension", extName)>>
                    /\ extensions' = <<extName>> \o extensions
                    /\ alive' = alive \cup {Comp("extension", extName)}
                    /\ gstate' = IF HasServer(type)
                                 THEN [gstate EXCEPT ![extName] = "serving"]
                                 ELSE gstate
                    /\ idx' = idx + 1
                    /\ UNCHANGED <<pc, ret>>
    /\ UNCHANGED <<cfgFile, config, telemetry, waiting, readyClosed, stopChan,
                   trigger, errs, local>>
    /\ UNCHANGED <<providerVars, libVars>>

(* one iteration of the loop of setupExtensions *)
SetupExtension ==
    /\ pc = "setupExtensions"
    /\ idx <= Len(config.svcExtensions)
    /\ LET extName == config.svcExtensions[idx] IN
       IF extName \notin DOMAIN config.extensions
       THEN /\ SetupExtensionsFail(Errorf("extension is not configured", extName))
            /\ UNCHANGED <<idx, extensions, alive, log, gstate>>
       ELSE LET type == config.extensions[extName] IN
            IF type \notin ExtensionFactories
            THEN /\ SetupExtensionsFail(
                        Errorf("extension factory for type is not configured", extName))
                 /\ UNCHANGED <<idx, extensions, alive, log, gstate>>
            ELSE \/ /\ SetupExtensionsFail(
                           Wrap(ComponentError(extName), "failed to create extension", extName))
                    /\ log' = Append(log, Failed("Create", "extension", extName))
                    /\ UNCHANGED <<idx, extensions, alive, gstate>>
                 \/ /\ SetupExtensionsFail(
                           Errorf("factory produced a nil extension", extName))
                    /\ log' = Append(log, Ev("Create", "extension", extName))
                    /\ UNCHANGED <<idx, extensions, alive, gstate>>
                 \/ /\ SetupExtensionsFail(
                           Wrap(ComponentError(extName), "error starting extension", extName))
                    /\ log' = log \o <<Ev("Create", "extension", extName),
                                       Failed("Start", "extension", extName)>>
                    /\ UNCHANGED <<idx, extensions, alive, gstate>>
                 \/ /\ log' = log \o <<Ev("Create", "extension", extName),
                                       Ev("Start", "extension", extName)>>
                    /\ extensions' = Append(extensions, extName)
                    /\ alive' = alive \cup {Comp("extension", extName)}
                    /\ gstate' = IF HasServer(type)
                                 THEN [gstate EXCEPT ![extName] = "serving"]
                                 ELSE gstate
                    /\ idx' = idx + 1
                    /\ UNCHANGED <<pc, ret>>
    /\ UNCHANGED <<cfgFile, config, telemetry, waiting, readyClosed, stopChan,
                   trigger, errs, local>>
    /\ UNCHANGED <<providerVars, libVars>>

(* faulty variant: the receivers are built and started before the processors *)
SetupPipelinesOrderReceiversFirst ==
    <<"buildExporters", "startExporters", "buildReceivers", "startReceivers",
      "buildPipelines", "startProcessors", "notifyReady">>

(* the stages of setupPipelines, in program order, and what follows them *)
SetupPipelinesOrder ==
    <<"buildExporters", "startExporters", "buildPipelines", "startProcessors",
      "buildReceivers", "startReceivers", "notifyReady">>

AfterSetupStage(stage) ==
    LET i == CHOOSE j \in 1..Len(SetupPipelinesOrder) : SetupPipelinesOrder[j] = stage
    IN SetupPipelinesOrder[i + 1]

(* setupExtensions returns nil: setupPipelines begins *)
SetupExtensionsDone ==
    /\ pc = "setupExtensions"
    /\ idx > Len(config.svcExtensions)
    /\ pc' = SetupPipelinesOrder[1]
    /\ idx' = 0
    /\ UNCHANGED <<cfgFile, config, telemetry, extensions, alive, log, gstate, waiting,
                   readyClosed, stopChan, trigger, errs, local, ret>>
    /\ UNCHANGED <<providerVars, libVars>>

(* faulty variant: setupPipelines ignores the error of a step and goes on *)
SetupPipelinesFailIgnored(msg) ==
    /\ pc' = AfterSetupStage(pc)
    /\ UNCHANGED ret

SetupPipelinesFail(msg) ==
    Return(Wrap(Wrap(ComponentError(0), msg, 0), "cannot setup pipelines", 0))

(* a builder's Build(): creates the n components of a kind, or fails *)
BuildStage(stage, kind, n, msg) ==
    /\ pc = stage
    /\ \/ /\ log' = log \o StageEvents("Build", kind, n)
          /\ pc' = AfterSetupStage(stage)
          /\ idx' = IF pc' = "notifyReady" THEN 1 ELSE 0
          /\ UNCHANGED ret
       \/ /\ \E k \in 1..n :
                log' = log \o StageEvents("Build", kind, k - 1)
                           \o <<Failed("Build", kind, k)>>
          /\ SetupPipelinesFail(msg)
          /\ UNCHANGED idx
    /\ UNCHANGED <<cfgFile, config, telemetry, extensions, alive, gstate, waiting,
                   readyClosed, stopChan, trigger, errs, local>>
    /\ UNCHANGED <<providerVars, libVars>>

(* StartAll / StartProcessors: starts the components in order and stops at *)
(* the first one whose Start fails                                         *)
StartStage(stage, kind, n, msg) ==
    /\ pc = stage
    /\ \/ /\ log' = log \o StageEvents("Start", kind, n)
          /\ alive' = alive \cup StageComps(kind, n)
          /\ pc' = AfterSetupStage(stage)
          /\ idx' = IF pc' = "notifyReady" THEN 1 ELSE 0
          /\ UNCHANGED ret
       \/ /\ \E k \in 1..n :
                /\ log' = log \o StageEvents("Start", kind, k - 1)
                               \o <<Failed("Start", kind, k)>>
                /\ alive' = alive \cup StageComps(kind, k - 1)
          /\ SetupPipelinesFail(msg)
          /\ UNCHANGED idx
    /\ UNCHANGED <<cfgFile, config, telemetry, extensions, gstate, waiting,
                   readyClosed, stopChan, trigger, errs, local>>
    /\ UNCHANGED <<providerVars, libVars>>

BuildExporters ==
    BuildStage("buildExporters", "exporter", Len(ExporterNames(config)),
               "cannot build exporters")

(* faulty variant: an exporter is started for every reference of a pipeline *)
StartExportersPerReference ==
    StartStage("startExporters", "exporter", Len(ExporterRefs(config)),
               "cannot start exporters")

StartExporters ==
    StartStage("startExporters", "exporter", Len(ExporterNames(config)),
               "cannot start exporters")

BuildPipelines ==
    BuildStage("buildPipelines", "processor", config.nProcessors, "cannot build pipelines")

StartProcessors ==
    StartStage("startProcessors", "processor", config.nProcessors, "cannot start processors")

BuildReceivers ==
    BuildStage("buildReceivers", "receiver", config.nReceivers, "cannot build receivers")

StartReceivers ==
    StartStage("startReceivers", "receiver", config.nReceivers, "cannot start receivers")

(* faulty variant: the loop goes on after a Ready() that failed *)
NotifyPipelineReadyIgnoreError ==
    /\ pc = "notifyReady"
    /\ idx <= Len(extensions)
    /\ LET ext == extensions[idx] IN
       IF IsPipelineWatcher(config.extensions[ext])
       THEN \/ log' = Append(log, Ev("Ready", "extension", ext))
            \/ log' = Append(log, Failed("Ready", "extension", ext))
       ELSE UNCHANGED log
    /\ idx' = idx + 1
    /\ UNCHANGED <<pc, ret, cfgFile, config, telemetry, extensions, alive, gstate,
                   waiting, readyClosed, stopChan, trigger, errs, local>>
    /\ UNCHANGED <<providerVars, libVars>>

(* faulty variant: the loop visits app.extensions in reverse order *)
NotifyPipelineReadyReversed ==
    /\ pc = "notifyReady"
    /\ idx <= Len(extensions)
    /\ LET ext == extensions[Len(extensions) + 1 - idx] IN
       IF IsPipelineWatcher(config.extensions[ext])
       THEN \/ /\ log' = Append(log, Ev("Ready", "extension", ext))
               /\ idx' = idx + 1
               /\ UNCHANGED <<pc, ret>>
            \/ /\ log' = Append(log, Failed("Ready", "extension", ext))
               /\ Return(Wrap(ComponentError(ext),
                              "error notifying extension that the pipeline was started",
                              config.svcExtensions[idx]))
               /\ UNCHANGED idx
       ELSE /\ idx' = idx + 1
            /\ UNCHANGED <<pc, ret, log>>
    /\ UNCHANGED <<cfgFile, config, telemetry, extensions, alive, gstate, waiting,
                   readyClosed, stopChan, trigger, errs, local>>
    /\ UNCHANGED <<providerVars, libVars>>

(* one iteration of the loop of notifyPipelineReady *)
NotifyPipelineReady ==
    /\ pc = "notifyReady"
    /\ idx <= Len(extensions)
    /\ LET ext == extensions[idx] IN
       IF IsPipelineWatcher(config.extensions[ext])
       THEN \/ /\ log' = Append(log, Ev("Ready", "extension", ext))
               /\ idx' = idx + 1
               /\ UNCHANGED <<pc, ret>>
            \/ /\ log' = Append(log, Failed("Ready", "extension", ext))
               /\ Return(Wrap(ComponentError(ext),
                              "error notifying extension that the pipeline was started",
                              config.svcExtensions[idx]))
               /\ UNCHANGED idx
       ELSE /\ idx' = idx + 1
            /\ UNCHANGED <<pc, ret, log>>
    /\ UNCHANGED <<cfgFile, config, telemetry, extensions, alive, gstate, waiting,
                   readyClosed, stopChan, trigger, errs, local>>
    /\ UNCHANGED <<providerVars, libVars>>

(* faulty variant: readyChan is closed before stopTestChan is made *)
RunAndWaitOrderReadyFirst == <<"closeReady", "runAndWait", "select">>

(* the statements of runAndWaitForShutdownEvent, in program order:         *)
(* signal.Notify and app.stopTestChan = make(...), close(app.readyChan),   *)
(* the select                                                              *)
RunAndWaitOrder == <<"runAndWait", "closeReady", "select">>

AfterRunAndWaitStep(stage) ==
    LET i == CHOOSE j \in 1..Len(RunAndWaitOrder) : RunAndWaitOrder[j] = stage
    IN RunAndWaitOrder[i + 1]

(* notifyPipelineReady returns nil: runAndWaitForShutdownEvent begins *)
NotifyPipelineReadyDone ==
    /\ pc = "notifyReady"
    /\ idx > Len(extensions)
    /\ pc' = RunAndWaitOrder[1]
    /\ idx' = 0
    /\ UNCHANGED <<cfgFile, config, telemetry, extensions, alive, log, gstate, waiting,
                   readyClosed, stopChan, trigger, errs, local, ret>>
    /\ UNCHANGED <<providerVars, libVars>>

(* ---- runAndWaitForShutdownEvent ---- *)

(* signal.Notify, app.stopTestChan = make(...) *)
RunAndWait ==
    /\ pc = "runAndWait"
    /\ stopChan' = TRUE
    /\ pc' = AfterRunAndWaitStep(pc)
    /\ UNCHANGED <<idx, cfgFile, config, telemetry, extensions, alive, log, gstate,
                   waiting, readyClosed, trigger, errs, local, ret>>
    /\ UNCHANGED <<providerVars, libVars>>

(* close(app.readyChan): the tests that wait for readiness go on *)
CloseReadyChan ==
    /\ pc = "closeReady"
    /\ readyClosed' = TRUE
    /\ pc' = AfterRunAndWaitStep(pc)
    /\ UNCHANGED <<idx, cfgFile, config, telemetry, extensions, alive, log, gstate,
                   waiting, stopChan, trigger, errs, local, ret>>
    /\ UNCHANGED <<providerVars, libVars>>

(* faulty variant: execute() shuts the extensions down before the pipelines *)
ShutdownOrderExtensionsFirst ==
    <<"notifyNotReady", "shutdownExtensions", "stopReceivers", "shutdownProcessors",
      "shutdownExporters", "shutdownPipelinesReturn">>

(* faulty variant: shutdownPipelines stops the stages in build order *)
ShutdownOrderExportersFirst ==
    <<"notifyNotReady", "shutdownExporters", "shutdownProcessors", "stopReceivers",
      "shutdownPipelinesReturn", "shutdownExtensions">>

(* the stages of the shutdown sequence of execute(), in program order *)
ShutdownOrder ==
    <<"notifyNotReady", "stopReceivers", "shutdownProcessors", "shutdownExporters",
      "shutdownPipelinesReturn", "shutdownExtensions">>

AfterShutdownStage(stage) ==
    LET i == CHOOSE j \in 1..Len(ShutdownOrder) : ShutdownOrder[j] = stage
    IN ShutdownOrder[i + 1]

(* the stages that loop over app.extensions in reverse order *)
LoopStart(stage) ==
    IF stage \in {"notifyNotReady", "shutdownExtensions"} THEN Len(extensions) ELSE 0

(* the select statement returned: the shutdown sequence begins *)
BeginShutdown(event) ==
    /\ trigger' = event
    /\ pc' = ShutdownOrder[1]
    /\ idx' = LoopStart(ShutdownOrder[1])

(* faulty variant: a fatal error skips the NotReady notification *)
ReceiveAsyncErrorAbrupt(e) ==
    /\ pc = "select"
    /\ gstate[e] = "reporting"
    /\ gstate' = [gstate EXCEPT ![e] = "exited"]
    /\ trigger' = "asyncError"
    /\ pc' = "stopReceivers"
    /\ idx' = 0
    /\ UNCHANGED <<cfgFile, config, telemetry, extensions, alive, log, waiting,
                   readyClosed, stopChan, errs, local, ret>>
    /\ UNCHANGED <<providerVars, libVars>>

(* case err := <-app.asyncErrorChannel: the send of reporter e completes, *)
(* its ReportFatalError returns and the goroutine exits (close(stopCh))   *)
ReceiveAsyncError(e) ==
    /\ pc = "select"
    /\ gstate[e] = "reporting"
    /\ gstate' = [gstate EXCEPT ![e] = "exited"]
    /\ BeginShutdown("asyncError")
    /\ UNCHANGED <<cfgFile, config, telemetry, extensions, alive, log, waiting,
                   readyClosed, stopChan, errs, local, ret>>
    /\ UNCHANGED <<providerVars, libVars>>

(* case s := <-signalsChannel *)
ReceiveSignal ==
    /\ pc = "select"
    /\ BeginShutdown("signal")
    /\ UNCHANGED <<cfgFile, config, telemetry, extensions, alive, log, gstate, waiting,
                   readyClosed, stopChan, errs, local, ret>>
    /\ UNCHANGED <<providerVars, libVars>>

(* case <-app.stopTestChan: a test that saw readyChan closed closed it *)
ReceiveStopTest ==
    /\ pc = "select"
    /\ readyClosed /\ stopChan
    /\ BeginShutdown("stopTest")
    /\ UNCHANGED <<cfgFile, config, telemetry, extensions, alive, log, gstate, waiting,
                   readyClosed, stopChan, errs, local, ret>>
    /\ UNCHANGED <<providerVars, libVars>>

(* ---- the serving goroutine of a configui extension ---- *)

(* server.Serve fails with an error other than ErrServerClosed: the       *)
(* goroutine calls host.ReportFatalError, app.asyncErrorChannel <- err    *)
ReportFatalError(e) ==
    /\ gstate[e] = "serving"
    /\ gstate' = [gstate EXCEPT ![e] = "reporting"]
    /\ UNCHANGED <<pc, idx, cfgFile, config, telemetry, extensions, alive, log,
                   waiting, readyClosed, stopChan, trigger, errs, local, ret>>
    /\ UNCHANGED <<providerVars, libVars>>

(* ---- execute(): shutdown ---- *)

(* a shutdown function returns: execute() appends its wrapped error *)
Accumulate(msg) ==
    errs' = IF Len(local) # 0
            THEN Append(errs, Wrap(CombineErrors(local), msg, 0))
            ELSE errs

(* the error execute() returns after the shutdown sequence *)
ExecuteResult(all) == IF Len(all) # 0 THEN CombineErrors(all) ELSE Nil

(* faulty variant: the loop returns at the first NotReady error *)
NotifyPipelineNotReadyShortCircuit ==
    /\ pc = "notifyNotReady"
    /\ idx >= 1
    /\ LET ext == extensions[idx] IN
       IF IsPipelineWatcher(config.extensions[ext])
       THEN \/ /\ log' = Append(log, Ev("NotReady", "extension", ext))
               /\ idx' = idx - 1
               /\ UNCHANGED local
            \/ /\ log' = Append(log, Failed("NotReady", "extension", ext))
               /\ idx' = 0
               /\ local' = Append(local,
                      Wrap(ComponentError(ext),
                           "error notifying extension that the pipeline was shutdown",
                           config.svcExtensions[idx]))
       ELSE /\ idx' = idx - 1
            /\ UNCHANGED <<log, local>>
    /\ UNCHANGED <<pc, cfgFile, config, telemetry, extensions, alive, gstate, waiting,
                   readyClosed, stopChan, trigger, errs, ret>>
    /\ UNCHANGED <<providerVars, libVars>>

(* one iteration of the loop of notifyPipelineNotReady *)
NotifyPipelineNotReady ==
    /\ pc = "notifyNotReady"
    /\ idx >= 1
    /\ LET ext == extensions[idx] IN
       IF IsPipelineWatcher(config.extensions[ext])
       THEN \/ /\ log' = Append(log, Ev("NotReady", "extension", ext))
               /\ UNCHANGED local
            \/ /\ log' = Append(log, Failed("NotReady", "extension", ext))
               /\ local' = Append(local,
                      Wrap(ComponentError(ext),
                           "error notifying extension that the pipeline was shutdown",
                           config.svcExtensions[idx]))
       ELSE UNCHANGED <<log, local>>
    /\ idx' = idx - 1
    /\ UNCHANGED <<pc, cfgFile, config, telemetry, extensions, alive, gstate, waiting,
                   readyClosed, stopChan, trigger, errs, ret>>
    /\ UNCHANGED <<providerVars, libVars>>

(* faulty variant: execute() returns as soon as notifyPipelineNotReady fails *)
NotifyPipelineNotReadyDoneReturnOnError ==
    /\ pc = "notifyNotReady"
    /\ idx = 0
    /\ Accumulate("failed to notify that pipeline is not ready")
    /\ local' = <<>>
    /\ IF Len(local) # 0
       THEN /\ Return(ExecuteResult(errs'))
            /\ UNCHANGED idx
       ELSE /\ pc' = AfterShutdownStage(pc)
            /\ idx' = LoopStart(pc')
            /\ UNCHANGED ret
    /\ UNCHANGED <<cfgFile, config, telemetry, extensions, alive, log, gstate, waiting,
                   readyClosed, stopChan, trigger>>
    /\ UNCHANGED <<providerVars, libVars>>

(* notifyPipelineNotReady returns; shutdownPipelines begins *)
NotifyPipelineNotReadyDone ==
    /\ pc = "notifyNotReady"
    /\ idx = 0
    /\ Accumulate("failed to notify that pipeline is not ready")
    /\ local' = <<>>
    /\ pc' = AfterShutdownStage(pc)
    /\ idx' = LoopStart(pc')
    /\ UNCHANGED <<cfgFile, config, telemetry, extensions, alive, log, gstate, waiting,
                   readyClosed, stopChan, trigger, ret>>
    /\ UNCHANGED <<providerVars, libVars>>

(* StopAll / ShutdownProcessors / ShutdownAll: calls Shutdown on every     *)
(* component of the kind and returns an error when some of them failed     *)
StopStage(stage, kind, n, msg) ==
    /\ pc = stage
    /\ alive' = alive \ StageComps(kind, n)
    /\ \/ /\ log' = log \o StageEvents("Shutdown", kind, n)
          /\ UNCHANGED local
       \/ /\ n >= 1
          /\ log' = log \o StageEvents("Shutdown", kind, n - 1)
                         \o <<Failed("Shutdown", kind, n)>>
          /\ local' = Append(local, Wrap(ComponentError(n), msg, 0))
    /\ pc' = AfterShutdownStage(stage)
    /\ idx' = LoopStart(pc')
    /\ UNCHANGED <<cfgFile, config, telemetry, extensions, gstate, waiting,
                   readyClosed, stopChan, trigger, errs, ret>>
    /\ UNCHANGED <<providerVars, libVars>>

StopReceivers ==
    StopStage("stopReceivers", "receiver", config.nReceivers, "failed to stop receivers")

ShutdownProcessors ==
    StopStage("shutdownProcessors", "processor", config.nProcessors,
              "failed to shutdown processors")

ShutdownExporters ==
    StopStage("shutdownExporters", "exporter", Len(ExporterNames(config)),
              "failed to shutdown exporters")

(* shutdownPipelines returns; shutdownExtensions begins *)
ShutdownPipelinesReturn ==
    /\ pc = "shutdownPipelinesReturn"
    /\ Accumulate("failed to shutdown pipelines")
    /\ local' = <<>>
    /\ pc' = AfterShutdownStage(pc)
    /\ idx' = LoopStart(pc')
    /\ UNCHANGED <<cfgFile, config, telemetry, extensions, alive, log, gstate, waiting,
                   readyClosed, stopChan, trigger, ret>>
    /\ UNCHANGED <<providerVars, libVars>>

(* shutdownExtensions appends the error, if any, that ext.Shutdown() returned *)
ShutdownReturned(failed) ==
    local' = IF failed
             THEN Append(local,
                      Wrap(ComponentError(extensions[idx]), "error shutting down extension",
                           config.svcExtensions[idx]))
             ELSE local

(* faulty variant: the loop of shutdownExtensions returns at the first error *)
ShutdownExtensionStopAtError ==
    /\ pc = "shutdownExtensions"
    /\ idx >= 1
    /\ waiting = "none"
    /\ LET ext == extensions[idx] IN
       /\ alive' = alive \ {Comp("extension", ext)}
       /\ \E failed \in BOOLEAN :
            /\ log' = Append(log, IF failed THEN Failed("Shutdown", "extension", ext)
                                            ELSE Ev("Shutdown", "extension", ext))
            /\ IF HasServer(config.extensions[ext])
               THEN /\ gstate' = IF gstate[ext] = "serving"
                                 THEN [gstate EXCEPT ![ext] = "exited"]
                                 ELSE gstate
                    /\ waiting' = IF failed THEN "err" ELSE "nil"
                    /\ UNCHANGED <<idx, local>>
               ELSE /\ ShutdownReturned(failed)
                    /\ idx' = IF failed THEN 0 ELSE idx - 1
                    /\ UNCHANGED <<gstate, waiting>>
    /\ UNCHANGED <<pc, cfgFile, config, telemetry, extensions, readyClosed, stopChan,
                   trigger, errs, ret>>
    /\ UNCHANGED <<providerVars, libVars>>

(* one iteration of the loop of shutdownExtensions: ext.Shutdown() is      *)
(* called.  A configui extension closes its server (err := server.Close()),*)
(* which makes a serving goroutine exit, and then waits on stopCh.         *)
ShutdownExtension ==
    /\ pc = "shutdownExtensions"
    /\ idx >= 1
    /\ waiting = "none"
    /\ LET ext == extensions[idx] IN
       /\ alive' = alive \ {Comp("extension", ext)}
       /\ \E failed \in BOOLEAN :
            /\ log' = Append(log, IF failed THEN Failed("Shutdown", "extension", ext)
                                            ELSE Ev("Shutdown", "extension", ext))
            /\ IF HasServer(config.extensions[ext])
               THEN /\ gstate' = IF gstate[ext] = "serving"
                                 THEN [gstate EXCEPT ![ext] = "exited"]
                                 ELSE gstate
                    /\ waiting' = IF failed THEN "err" ELSE "nil"
                    /\ UNCHANGED <<idx, local>>
               ELSE /\ ShutdownReturned(failed)
                    /\ idx' = idx - 1
                    /\ UNCHANGED <<gstate, waiting>>
    /\ UNCHANGED <<pc, cfgFile, config, telemetry, extensions, readyClosed, stopChan,
                   trigger, errs, ret>>
    /\ UNCHANGED <<providerVars, libVars>>

(* <-cfe.stopCh returns once the goroutine has exited; Shutdown returns err *)
ShutdownExtensionWaited ==
    /\ pc = "shutdownExtensions"
    /\ waiting # "none"
    /\ gstate[extensions[idx]] = "exited"
    /\ waiting' = "none"
    /\ ShutdownReturned(waiting = "err")
    /\ idx' = idx - 1
    /\ UNCHANGED <<pc, cfgFile, config, telemetry, extensions, alive, log, gstate,
                   readyClosed, stopChan, trigger, errs, ret>>
    /\ UNCHANGED <<providerVars, libVars>>

(* faulty variant: execute() drops app.config when it returns *)
ShutdownExtensionsDoneClearsConfig ==
    /\ pc = "shutdownExtensions"
    /\ idx = 0
    /\ Accumulate("failed to shutdown extensions")
    /\ local' = <<>>
    /\ telemetry' = "shutdown"
    /\ config' = NoConfig
    /\ Return(ExecuteResult(errs'))
    /\ UNCHANGED <<idx, cfgFile, extensions, alive, log, gstate,
                   waiting, readyClosed, stopChan, trigger>>
    /\ UNCHANGED <<providerVars, libVars>>

(* shutdownExtensions returns; AppTelemetry.shutdown(); execute() returns *)
(* the combined errors                                                    *)
ShutdownExtensionsDone ==
    /\ pc = "shutdownExtensions"
    /\ idx = 0
    /\ Accumulate("failed to shutdown extensions")
    /\ local' = <<>>
    /\ telemetry' = "shutdown"
    /\ Return(ExecuteResult(errs'))
    /\ UNCHANGED <<idx, cfgFile, config, extensions, alive, log, gstate,
                   waiting, readyClosed, stopChan, trigger>>
    /\ UNCHANGED <<providerVars, libVars>>

Next ==
    \/ SetupTelemetry
    \/ LoadConfig
    \/ SetupExtension
    \/ SetupExtensionsDone
    \/ BuildExporters
    \/ StartExporters
    \/ BuildPipelines
    \/ StartProcessors
    \/ BuildReceivers
    \/ StartReceivers
    \/ NotifyPipelineReady
    \/ NotifyPipelineReadyDone
    \/ RunAndWait
    \/ CloseReadyChan
    \/ \E e \in ExtNames : ReceiveAsyncError(e)
    \/ ReceiveSignal
    \/ ReceiveStopTest
    \/ \E e \in ExtNames : ReportFatalError(e)
    \/ NotifyPipelineNotReady
    \/ NotifyPipelineNotReadyDone
    \/ StopReceivers
    \/ ShutdownProcessors
    \/ ShutdownExporters
    \/ ShutdownPipelinesReturn
    \/ ShutdownExtension
    \/ ShutdownExtensionWaited
    \/ ShutdownExtensionsDone

Spec == Init /\ [][Next]_vars

Controller ==
    \/ SetupTelemetry
    \/ LoadConfig
    \/ SetupExtension
    \/ SetupExtensionsDone
    \/ BuildExporters
    \/ StartExporters
    \/ BuildPipelines
    \/ StartProcessors
    \/ BuildReceivers
    \/ StartReceivers
    \/ NotifyPipelineReady
    \/ NotifyPipelineReadyDone
    \/ RunAndWait
    \/ CloseReadyChan
    \/ \E e \in ExtNames : ReceiveAsyncError(e)
    \/ NotifyPipelineNotReady
    \/ NotifyPipelineNotReadyDone
    \/ StopReceivers
    \/ ShutdownProcessors
    \/ ShutdownExporters
    \/ ShutdownPipelinesReturn
    \/ ShutdownExtension
    \/ ShutdownExtensionWaited
    \/ ShutdownExtensionsDone

(* The Go scheduler runs every goroutine that can take a step: the         *)
(* controller is not starved, and a pending send on asyncErrorChannel is   *)
(* received when the controller waits in the select.                       *)
FairSpec == Spec /\ WF_vars(Controller)

(* ---- the config provider ---- *)

(* the sources change: the resolver signals it on the Watch channel *)
SourceChanged ==
    /\ \E doc \in Docs \ {source} : source' = doc
    /\ watchCh' = "changed"
    /\ UNCHANGED <<lastResolvedConfig, lastKnownGoodConfig, got, reported, acked>>
    /\ UNCHANGED <<appVars, libVars>>

(* watching the sources breaks: the resolver sends the error on the Watch channel *)
WatchFailed ==
    /\ watchCh # "error"
    /\ watchCh' = "error"
    /\ UNCHANGED <<source, lastResolvedConfig, lastKnownGoodConfig, got, reported, acked>>
    /\ UNCHANGED <<appVars, libVars>>

(* what Get returns for a resolved document: Unmarshal, then cfg.Validate() *)
UnmarshalAndValidate(doc) ==
    IF doc.shape = "malformed"
    THEN [cfg |-> NoCfg,
          err |-> Wrap(Errorf("unmarshal error", doc.rev),
                       "cannot unmarshal the configuration", 0)]
    ELSE IF Validate(Unmarshal(doc).config) # Nil
    THEN [cfg |-> NoCfg,
          err |-> Wrap(Validate(Unmarshal(doc).config), "invalid configuration", 0)]
    ELSE [cfg |-> Unmarshal(doc), err |-> Nil]

(* faulty variant: Get does not clear lastResolvedConfig before resolving *)
GetKeepsLastResolved ==
    /\ IF source.shape = "unmergeable"
       THEN /\ UNCHANGED lastResolvedConfig
            /\ got' = [cfg |-> NoCfg,
                       err |-> Wrap(Errorf("resolve error", source.rev),
                                    "cannot resolve the configuration", 0),
                       retMap |-> NoDoc, marshalled |-> FALSE]
       ELSE \E marshalled \in BOOLEAN :
               /\ lastResolvedConfig' =
                     IF marshalled THEN ToYAML(source) ELSE lastResolvedConfig
               /\ got' = [cfg |-> UnmarshalAndValidate(source).cfg,
                          err |-> UnmarshalAndValidate(source).err,
                          retMap |-> source, marshalled |-> marshalled]
    /\ UNCHANGED <<source, watchCh, lastKnownGoodConfig, reported, acked>>
    /\ UNCHANGED <<appVars, libVars>>

(* configProvider.Get: clears lastResolvedConfig, resolves the sources,    *)
(* keeps the YAML of the resolved document when it can be computed,        *)
(* unmarshals and validates                                                *)
Get ==
    /\ IF source.shape = "unmergeable"
       THEN /\ lastResolvedConfig' = NoBytes
            /\ got' = [cfg |-> NoCfg,
                       err |-> Wrap(Errorf("resolve error", source.rev),
                                    "cannot resolve the configuration", 0),
                       retMap |-> NoDoc, marshalled |-> FALSE]
       ELSE \E marshalled \in BOOLEAN :
               /\ lastResolvedConfig' = IF marshalled THEN ToYAML(source) ELSE NoBytes
               /\ got' = [cfg |-> UnmarshalAndValidate(source).cfg,
                          err |-> UnmarshalAndValidate(source).err,
                          retMap |-> source, marshalled |-> marshalled]
    /\ UNCHANGED <<source, watchCh, lastKnownGoodConfig, reported, acked>>
    /\ UNCHANGED <<appVars, libVars>>

(* faulty variant: a failed update makes the provider forget the last known good *)
ConfigUpdateFailedForgets(err) ==
    /\ reported' = [op |-> "ConfigUpdateFailed",
                    args |-> <<lastResolvedConfig, lastResolvedConfig, err>>]
    /\ lastKnownGoodConfig' = lastResolvedConfig
    /\ UNCHANGED <<source, watchCh, lastResolvedConfig, got, acked>>
    /\ UNCHANGED <<appVars, libVars>>

(* faulty variant: a failed update discards the last resolved configuration *)
ConfigUpdateFailedClearsResolved(err) ==
    /\ reported' = [op |-> "ConfigUpdateFailed",
                    args |-> <<lastKnownGoodConfig, lastResolvedConfig, err>>]
    /\ lastResolvedConfig' = NoBytes
    /\ UNCHANGED <<source, watchCh, lastKnownGoodConfig, got, acked>>
    /\ UNCHANGED <<appVars, libVars>>

(* configProvider.ConfigUpdateFailed *)
ConfigUpdateFailed(err) ==
    /\ reported' = [op |-> "ConfigUpdateFailed",
                    args |-> <<lastKnownGoodConfig, lastResolvedConfig, err>>]
    /\ UNCHANGED <<source, watchCh, lastResolvedConfig, lastKnownGoodConfig, got, acked>>
    /\ UNCHANGED <<appVars, libVars>>

(* the YAML of the document the most recent Get resolved, if any *)
SnapshotOf(g) == IF g.marshalled THEN ToYAML(g.retMap) ELSE NoBytes

(* configProvider.ConfigUpdateSucceeded *)
ConfigUpdateSucceeded ==
    /\ lastKnownGoodConfig' = lastResolvedConfig
    /\ reported' = [op |-> "ConfigUpdateSucceeded", args |-> <<lastKnownGoodConfig'>>]
    /\ acked' = SnapshotOf(got)
    /\ UNCHANGED <<source, watchCh, lastResolvedConfig, got>>
    /\ UNCHANGED <<appVars, libVars>>

(* the provider alone, called in any order by its user *)
ProviderNext ==
    \/ SourceChanged
    \/ Get
    \/ \E err \in {got.err, ApplyError} : ConfigUpdateFailed(err)
    \/ ConfigUpdateSucceeded

(* a new provider, next to an application that runs WatchedConfig *)
WatchInit == InitWith({WatchedConfig})

ProviderSpec == WatchInit /\ [][ProviderNext]_vars

(* the application next to a provider whose sources change *)
WatchNext ==
    \/ Next
    \/ SourceChanged
    \/ WatchFailed

WatchSpec == WatchInit /\ [][WatchNext]_vars

WatchFairSpec == WatchSpec /\ WF_vars(Controller)

(* the application with pipelines that share their exporters *)
SharedInit == InitWith(SharedConfigs)

SharedSpec == SharedInit /\ [][Next]_vars

(* ---- package receiver: the factory map and the Builder ---- *)

Signals == {"traces", "metrics", "logs"}

(* component.ID: a type and a name, the name empty for the default instance *)
NewID(type) == [type |-> type, name |-> ""]

NewIDWithName(type, name) == [type |-> type, name |-> name]

(* ID.String(): "type", or "type/name" for a named instance *)
IDString(id) == IF id.name = "" THEN id.type ELSE id.type \o "/" \o id.name

(* the component IDs the callers ask for *)
ReceiverIDs ==
    {NewID("unknown"), NewID("err"), NewID("all"), NewIDWithName("all", "named"),
     NewIDWithName("all", "missing")}

(* NewFactory(type, createDefaultConfig, options...): signals are those a   *)
(* WithTraces, WithMetrics or WithLogs option gave a create function for    *)
NewFactory(type, signals) == [type |-> type, signals |-> signals]

(* the factories the callers register; two of them have the same type *)
ReceiverFactories ==
    {NewFactory("err", {}), NewFactory("all", Signals), NewFactory("all", {})}

FactoryLists == UNION {[1..k -> ReceiverFactories] : k \in 0..MaxFactories}

ConfigMaps == {c \in SUBSET ReceiverIDs : Cardinality(c) <= MaxConfigs}

NoFactories == [t \in {} |-> NewFactory(t, {})]

(* one step of MakeFactoryMap: the map with f added under its type *)
WithFactory(m, f) ==
    [t \in DOMAIN m \cup {f.type} |-> IF t = f.type THEN f ELSE m[t]]

RECURSIVE MakeFactoryMapFrom(_, _)
MakeFactoryMapFrom(m, fs) ==
    IF fs = <<>> THEN [map |-> m, err |-> Nil]
    ELSE IF Head(fs).type \in DOMAIN m
         THEN [map |-> m, err |-> Errorf("duplicate receiver factory", Head(fs).type)]
         ELSE MakeFactoryMapFrom(WithFactory(m, Head(fs)), Tail(fs))

(* a factory map in which a later factory replaces an earlier one of its type *)
MakeFactoryMapOverwrites(fs) ==
    [map |-> [t \in {fs[i].type : i \in 1..Len(fs)} |->
                 fs[CHOOSE i \in 1..Len(fs) :
                       fs[i].type = t /\ \A j \in (i + 1)..Len(fs) : fs[j].type # t]],
     err |-> Nil]

(* MakeFactoryMap(factories...) *)
MakeFactoryMap(fs) == MakeFactoryMapFrom(NoFactories, fs)

(* factories, err := MakeFactoryMap(...) *)
MakeFactoryMapCall ==
    /\ fMap = NoCall
    /\ \E fs \in FactoryLists :
          LET r == MakeFactoryMap(fs)
          IN  fMap' = [op |-> "MakeFactoryMap", in |-> fs, map |-> r.map, err |-> r.err]
    /\ UNCHANGED <<builder, created, helperVars, cfe, otlp, oc>>
    /\ UNCHANGED <<appVars, providerVars>>

(* NewBuilder(cfgs, factories) *)
NewBuilder(cfgs, factories) ==
    [op |-> "NewBuilder", cfgs |-> cfgs, factories |-> factories]

(* b := NewBuilder(cfgs, factories), after require.NoError(t, err) *)
NewBuilderCall ==
    /\ fMap # NoCall
    /\ fMap.err = Nil
    /\ builder = NoCall
    /\ \E cfgs \in ConfigMaps : builder' = NewBuilder(cfgs, fMap.map)
    /\ UNCHANGED <<fMap, created, helperVars, cfe, otlp, oc>>
    /\ UNCHANGED <<appVars, providerVars>>

NilReceiver == [factory |-> "nil", id |-> "nil"]

(* f.CreateTracesReceiver / CreateMetricsReceiver / CreateLogsReceiver *)
CreateReceiver(f, signal, id) ==
    IF signal \in f.signals
    THEN [comp |-> [factory |-> f.type, id |-> IDString(id)], err |-> Nil]
    ELSE [comp |-> NilReceiver, err |-> Errorf("telemetry type is not supported", IDString(id))]

(* a Builder that looks the factory up under the whole ID *)
CreateByFullName(b, signal, id) ==
    IF id \notin b.cfgs
    THEN [comp |-> NilReceiver, err |-> Errorf("receiver is not configured", IDString(id))]
    ELSE IF IDString(id) \notin DOMAIN b.factories
         THEN [comp |-> NilReceiver,
               err |-> Errorf("receiver factory not available for", IDString(id))]
         ELSE CreateReceiver(b.factories[IDString(id)], signal, id)

(* Builder.CreateTraces / CreateMetrics / CreateLogs(ctx, set, next), set.ID = id *)
Create(b, signal, id) ==
    IF id \notin b.cfgs
    THEN [comp |-> NilReceiver, err |-> Errorf("receiver is not configured", IDString(id))]
    ELSE IF id.type \notin DOMAIN b.factories
         THEN [comp |-> NilReceiver,
               err |-> Errorf("receiver factory not available for", IDString(id))]
         ELSE CreateReceiver(b.factories[id.type], signal, id)

CreateCall(signal) ==
    /\ builder # NoCall
    /\ \E id \in ReceiverIDs :
          LET r == Create(builder, signal, id)
          IN  created' = [op |-> signal, id |-> id, comp |-> r.comp, err |-> r.err]
    /\ UNCHANGED <<fMap, builder, helperVars, cfe, otlp, oc>>
    /\ UNCHANGED <<appVars, providerVars>>

CreateTraces == CreateCall("traces")

CreateMetrics == CreateCall("metrics")

CreateLogs == CreateCall("logs")

ReceiverNext ==
    \/ MakeFactoryMapCall
    \/ NewBuilderCall
    \/ CreateTraces
    \/ CreateMetrics
    \/ CreateLogs

ReceiverInit == InitWith({WatchedConfig})

ReceiverSpec == ReceiverInit /\ [][ReceiverNext]_vars

(* ---- package exporterhelper: the trace exporter helpers ---- *)

errNilConfig == Errorf("nil config", "exporterhelper")

errNilPushTraceData == Errorf("nil pushTraceData", "exporterhelper")

(* errors.New("my_error") of the callers *)
MyError == Errorf("my_error", "caller")

NilExporterConfig == [TypeVal |-> "nil", NameVal |-> "nil"]

fakeTraceExporterConfig ==
    [TypeVal |-> "fake_trace_exporter", NameVal |-> "fake_trace_exporter/with_name"]

ExporterConfigs == {NilExporterConfig, fakeTraceExporterConfig}

(* a pusher: what it returns, and the exporter name under which its calls  *)
(* are observed ("" when they are not)                                     *)
NilPusher == [nil |-> TRUE, droppedSpans |-> 0, retError |-> Nil, observedAs |-> ""]

(* newPushTraceData / newPushITrace(droppedSpans, retError) *)
newPushTraceData(droppedSpans, retError) ==
    [nil |-> FALSE, droppedSpans |-> droppedSpans, retError |-> retError,
     observedAs |-> ""]

Pushers ==
    {NilPusher} \cup {newPushTraceData(d, e) : d \in {0, 1}, e \in {Nil, MyError}}

(* a shutdown function: a nil func, or a func that returns ret *)
NilShutdown == [nil |-> TRUE, ret |-> Nil]

ShutdownFunc(result) == [nil |-> FALSE, ret |-> result]

(* WithShutdown(shutdown) *)
WithShutdown(shutdown) == [option |-> "WithShutdown", shutdown |-> shutdown]

WithRecordMetrics == [option |-> "WithRecordMetrics", shutdown |-> NilShutdown]

ExporterOptions ==
    {WithRecordMetrics} \cup
    {WithShutdown(f) : f \in {NilShutdown, ShutdownFunc(Nil), ShutdownFunc(MyError)}}

OptionLists == UNION {[1..k -> ExporterOptions] : k \in 0..MaxOptions}

(* newExporterOptions(options...): each option is applied in turn to the   *)
(* zero options                                                            *)
RECURSIVE ApplyOptions(_, _)
ApplyOptions(opts, options) ==
    IF options = <<>> THEN opts
    ELSE ApplyOptions(IF Head(options).option = "WithShutdown"
                      THEN [opts EXCEPT !.shutdown = Head(options).shutdown]
                      ELSE [opts EXCEPT !.recordMetrics = TRUE],
                      Tail(options))

newExporterOptions(options) ==
    ApplyOptions([shutdown |-> NilShutdown, recordMetrics |-> FALSE], options)

(* p.withObservability(exporterName) *)
withObservability(p, exporterName) == [p EXCEPT !.observedAs = exporterName]

(* a call of pusher p with data of numSpans spans: what it returns and the *)
(* export operation obsreport records                                      *)
CallPusher(p, numSpans) ==
    [droppedSpans |-> p.droppedSpans,
     err |-> p.retError,
     observed |-> IF p.observedAs = "" THEN <<>>
                  ELSE <<[exporter |-> p.observedAs, numSpans |-> numSpans,
                          droppedSpans |-> p.droppedSpans, err |-> p.retError]>>]

NilExporter ==
    [nil |-> TRUE, helper |-> "nil", exporterFullName |-> "", dataPusher |-> NilPusher,
     shutdown |-> NilShutdown]

(* the body that NewTraceExporter and NewITraceExporter share after their  *)
(* nil checks                                                              *)
BuildExporter(helper, cfg, dataPusher, options) ==
    LET opts == newExporterOptions(options)
    IN  [exp |-> [nil |-> FALSE,
                  helper |-> helper,
                  exporterFullName |-> cfg.NameVal,
                  dataPusher |-> withObservability(dataPusher, cfg.NameVal),
                  shutdown |-> IF opts.shutdown = NilShutdown
                               THEN ShutdownFunc(Nil)
                               ELSE opts.shutdown],
         err |-> Nil]

(* a helper that looks at the pusher before it looks at the config *)
NewTraceExporterPusherFirst(cfg, dataPusher, options) ==
    IF dataPusher = NilPusher THEN [exp |-> NilExporter, err |-> errNilPushTraceData]
    ELSE IF cfg = NilExporterConfig THEN [exp |-> NilExporter, err |-> errNilConfig]
    ELSE BuildExporter("traceExporter", cfg, dataPusher, options)

(* NewTraceExporter(cfg, dataPusher, options...) *)
NewTraceExporter(cfg, dataPusher, options) ==
    IF cfg = NilExporterConfig THEN [exp |-> NilExporter, err |-> errNilConfig]
    ELSE IF dataPusher = NilPusher THEN [exp |-> NilExporter, err |-> errNilPushTraceData]
    ELSE BuildExporter("traceExporter", cfg, dataPusher, options)

(* NewITraceExporter(cfg, dataPusher, options...) *)
NewITraceExporter(cfg, dataPusher, options) ==
    IF cfg = NilExporterConfig THEN [exp |-> NilExporter, err |-> errNilConfig]
    ELSE IF dataPusher = NilPusher THEN [exp |-> NilExporter, err |-> errNilPushTraceData]
    ELSE BuildExporter("iTraceExporter", cfg, dataPusher, options)

(* te, err := NewTraceExporter(...) or NewITraceExporter(...) *)
NewExporterCall(op, cfg, dataPusher, options) ==
    LET r == IF op = "NewTraceExporter"
             THEN NewTraceExporter(cfg, dataPusher, options)
             ELSE NewITraceExporter(cfg, dataPusher, options)
    IN  /\ te = NoCall
        /\ te' = [op |-> op, config |-> cfg, dataPusher |-> dataPusher,
                  options |-> options, exp |-> r.exp, err |-> r.err]
        /\ UNCHANGED <<receiverVars, teCall, cfe, otlp, oc>>
        /\ UNCHANGED <<appVars, providerVars>>

NewTraceExporterCall ==
    \E cfg \in ExporterConfigs, dataPusher \in Pushers, options \in OptionLists :
        NewExporterCall("NewTraceExporter", cfg, dataPusher, options)

NewITraceExporterCall ==
    \E cfg \in ExporterConfigs, dataPusher \in Pushers, options \in OptionLists :
        NewExporterCall("NewITraceExporter", cfg, dataPusher, options)

(* an exporter that drops the pusher's error *)
ConsumeSwallowsError(exp, numSpans) ==
    [ret |-> Nil, observed |-> CallPusher(exp.dataPusher, numSpans).observed]

(* traceExporter.ConsumeTraceData / iTraceExporter.ConsumeITrace(ctx, td) *)
Consume(exp, numSpans) ==
    LET r == CallPusher(exp.dataPusher, numSpans)
    IN  [ret |-> r.err, observed |-> r.observed]

ConsumeCall(op, helper) ==
    /\ te # NoCall
    /\ te.exp.helper = helper
    /\ \E numSpans \in 0..MaxSpans :
          LET r == Consume(te.exp, numSpans)
          IN  teCall' = [op |-> op, numSpans |-> numSpans, ret |-> r.ret,
                         observed |-> r.observed]
    /\ UNCHANGED <<receiverVars, te, cfe, otlp, oc>>
    /\ UNCHANGED <<appVars, providerVars>>

ConsumeTraceData == ConsumeCall("ConsumeTraceData", "traceExporter")

ConsumeITrace == ConsumeCall("ConsumeITrace", "iTraceExporter")

(* traceExporter.Shutdown / iTraceExporter.Shutdown: te.shutdown() *)
ExporterShutdown(exp) == exp.shutdown.ret

ExporterShutdownCall ==
    /\ te # NoCall
    /\ ~te.exp.nil
    /\ teCall' = [op |-> "Shutdown", numSpans |-> 0, ret |-> ExporterShutdown(te.exp),
                  observed |-> <<>>]
    /\ UNCHANGED <<receiverVars, te, cfe, otlp, oc>>
    /\ UNCHANGED <<appVars, providerVars>>

ExporterHelperNext ==
    \/ NewTraceExporterCall
    \/ NewITraceExporterCall
    \/ ConsumeTraceData
    \/ ConsumeITrace
    \/ ExporterShutdownCall

ExporterHelperInit == InitWith({WatchedConfig})

ExporterHelperSpec == ExporterHelperInit /\ [][ExporterHelperNext]_vars

(* ---- package configuiextension: the extension on its own ---- *)

(* the versions of configuiextension.go: two that listen and serve on      *)
(* their own server and one that serves with http.ListenAndServe           *)
ListeningVersions == {"part_002", "part_003"}

ConfigUIVersions == ListeningVersions \cup {"configuiextension.go"}

(* newServer(config, logger): stopCh is nil and nothing is running *)
newServer(version) ==
    [op |-> "newServer", version |-> version, start |-> "none", stopCh |-> "nil",
     goroutine |-> "none", serverClosed |-> FALSE, shutdown |-> "none",
     closeErr |-> Nil, served |-> 0]

NewConfigUI ==
    /\ cfe = NoCall
    /\ \E version \in ConfigUIVersions : cfe' = newServer(version)
    /\ UNCHANGED <<receiverVars, helperVars, otlp, oc>>
    /\ UNCHANGED <<appVars, providerVars>>

(* configUIExtension.Start: the listening versions listen, which may fail, *)
(* make stopCh and launch the goroutine that serves and closes stopCh when *)
(* it ends; the other version launches a goroutine that runs               *)
(* http.ListenAndServe, and leaves stopCh nil                              *)
ConfigUIStart ==
    /\ cfe # NoCall
    /\ cfe.start = "none"
    /\ cfe.shutdown = "none"
    /\ IF cfe.version \in ListeningVersions
       THEN \/ cfe' = [cfe EXCEPT !.start = "failed"]
            \/ cfe' = [cfe EXCEPT !.start = "ok", !.stopCh = "open",
                                  !.goroutine = "serving"]
       ELSE cfe' = [cfe EXCEPT !.start = "ok", !.goroutine = "serving"]
    /\ UNCHANGED <<receiverVars, helperVars, otlp, oc>>
    /\ UNCHANGED <<appVars, providerVars>>

(* the serving goroutine answers a request *)
ConfigUIHandler ==
    /\ cfe # NoCall
    /\ cfe.goroutine = "serving"
    /\ cfe.served < MaxRequests
    /\ cfe' = [cfe EXCEPT !.served = @ + 1]
    /\ UNCHANGED <<receiverVars, helperVars, otlp, oc>>
    /\ UNCHANGED <<appVars, providerVars>>

(* the call that serves returns.  server.Serve returns ErrServerClosed     *)
(* once cfe.server is closed, and the goroutine ends, closing stopCh; with *)
(* another error the goroutine calls host.ReportFatalError first.          *)
(* http.ListenAndServe does not serve on cfe.server: it returns only on an *)
(* error of its own, which the goroutine drops.                            *)
ConfigUIServeReturns ==
    /\ cfe # NoCall
    /\ cfe.goroutine = "serving"
    /\ IF cfe.version \in ListeningVersions
       THEN IF cfe.serverClosed
            THEN cfe' = [cfe EXCEPT !.goroutine = "exited", !.stopCh = "closed"]
            ELSE cfe' = [cfe EXCEPT !.goroutine = "reporting"]
       ELSE cfe' = [cfe EXCEPT !.goroutine = "exited"]
    /\ UNCHANGED <<receiverVars, helperVars, otlp, oc>>
    /\ UNCHANGED <<appVars, providerVars>>

(* the host receives the fatal error: ReportFatalError returns and the     *)
(* goroutine ends, closing stopCh                                          *)
ConfigUIReportReturns ==
    /\ cfe # NoCall
    /\ cfe.goroutine = "reporting"
    /\ cfe' = [cfe EXCEPT !.goroutine = "exited", !.stopCh = "closed"]
    /\ UNCHANGED <<receiverVars, helperVars, otlp, oc>>
    /\ UNCHANGED <<appVars, providerVars>>

(* configUIExtension.Shutdown: err := cfe.server.Close(); with a nil       *)
(* stopCh it returns err at once, otherwise it waits on stopCh             *)
ConfigUIShutdown ==
    /\ cfe # NoCall
    /\ cfe.shutdown = "none"
    /\ \E err \in {Nil, ComponentError(0)} :
          cfe' = [cfe EXCEPT !.serverClosed = TRUE, !.closeErr = err,
                             !.shutdown = IF cfe.stopCh = "nil" THEN "returned"
                                          ELSE "waiting"]
    /\ UNCHANGED <<receiverVars, helperVars, otlp, oc>>
    /\ UNCHANGED <<appVars, providerVars>>

(* <-cfe.stopCh returns: Shutdown returns err *)
ConfigUIShutdownWaited ==
    /\ cfe # NoCall
    /\ cfe.shutdown = "waiting"
    /\ cfe.stopCh = "closed"
    /\ cfe' = [cfe EXCEPT !.shutdown = "returned"]
    /\ UNCHANGED <<receiverVars, helperVars, otlp, oc>>
    /\ UNCHANGED <<appVars, providerVars>>

ConfigUINext ==
    \/ NewConfigUI
    \/ ConfigUIStart
    \/ ConfigUIHandler
    \/ ConfigUIServeReturns
    \/ ConfigUIReportReturns
    \/ ConfigUIShutdown
    \/ ConfigUIShutdownWaited

ConfigUIInit == InitWith({WatchedConfig})

ConfigUISpec == ConfigUIInit /\ [][ConfigUINext]_vars

(* ---- package otlpreceiver: the OTLP/HTTP handlers ---- *)

StatusOK == 200

StatusBadRequest == 400

StatusInternalServerError == 500

(* the pre-computed body, a status with code Internal, and its content type *)
fallbackMsg == "{\"code\": 13, \"message\": \"failed to marshal error message\"}"

fallbackContentType == "application/json"

pbContentType == "application/x-protobuf"

jsonContentType == "application/json"

pbEncoder == [name |-> "pb", contentType |-> pbContentType]

jsEncoder == [name |-> "json", contentType |-> jsonContentType]

Encoders == {pbEncoder, jsEncoder}

(* errors met by a handler: nil, a plain error, or a gRPC status error *)
NoErr == [kind |-> "nil"]

PlainError(msg) == [kind |-> "error", msg |-> msg]

StatusError(code, msg) == [kind |-> "status", code |-> code, msg |-> msg]

HandlerErrors(what) ==
    {NoErr, PlainError(what), StatusError("Unavailable", what)}

(* status.New(code, msg).Proto() *)
RpcStatus(code, msg) == [code |-> code, message |-> msg]

(* status.FromError(err): the status of a gRPC status error, and otherwise *)
(* not ok, with a status of code Unknown                                   *)
FromError(err) ==
    CASE err.kind = "nil"    -> [s |-> RpcStatus("OK", ""), ok |-> TRUE]
      [] err.kind = "status" -> [s |-> RpcStatus(err.code, err.msg), ok |-> TRUE]
      [] OTHER               -> [s |-> RpcStatus("Unknown", err.msg), ok |-> FALSE]

(* what an encoder's marshal call returns for a value it can marshal *)
Marshalled(encoder, value) == [encoding |-> encoder.name, value |-> value]

(* the Content-Type headers of a request, as mime.ParseMediaType reads them *)
ContentTypeHeaders ==
    {[mediatype |-> m, params |-> p, wellFormed |-> ok] :
        m \in {pbContentType, jsonContentType, "text/plain"},
        p \in {"", "charset=utf-8"}, ok \in BOOLEAN}

getMimeTypeFromContentType(contentType) ==
    IF ~contentType.wellFormed THEN "" ELSE contentType.mediatype

(* writeResponse: one Content-Type header, one WriteHeader and one Write *)
writeResponse(w, contentType, statusCode, msg) ==
    Append(w, [contentType |-> contentType, statusCode |-> statusCode, msg |-> msg])

errorMsgToStatusAlwaysUnknown(errMsg, statusCode) ==
    RpcStatus("Unknown", errMsg)

errorMsgToStatus(errMsg, statusCode) ==
    IF statusCode = StatusBadRequest
    THEN RpcStatus("InvalidArgument", errMsg)
    ELSE RpcStatus("Unknown", errMsg)

(* writeStatusResponse: marshals reports whether encoder.marshalStatus     *)
(* succeeds on rsp                                                         *)
writeStatusResponse(w, encoder, statusCode, rsp, marshals) ==
    IF ~marshals
    THEN writeResponse(w, fallbackContentType, StatusInternalServerError, fallbackMsg)
    ELSE writeResponse(w, encoder.contentType, statusCode, Marshalled(encoder, rsp))

writeError(w, encoder, err, statusCode, marshals) ==
    LET from == FromError(err)
        s == IF ~from.ok THEN errorMsgToStatus(err.msg, statusCode) ELSE from.s
    IN  writeStatusResponse(w, encoder, statusCode, s, marshals)

errorHandler(w, r, errMsg, statusCode) ==
    LET s == errorMsgToStatus(errMsg, statusCode)
        mimeType == getMimeTypeFromContentType(r.contentType)
    IN  CASE mimeType = pbContentType ->
                 writeStatusResponse(w, pbEncoder, statusCode, s, r.statusMarshals)
          [] mimeType = jsonContentType ->
                 writeStatusResponse(w, jsEncoder, statusCode, s, r.statusMarshals)
          [] OTHER ->
                 writeResponse(w, fallbackContentType, StatusInternalServerError, fallbackMsg)

(* a request as a handler meets it: the encoder chosen for it and what     *)
(* each step of the handler returns if the handler gets to it              *)
HandlerRequests ==
    [encoder : Encoders,
     readErr : HandlerErrors("read"),
     closeErr : HandlerErrors("close"),
     unmarshalErr : HandlerErrors("unmarshal"),
     exportErr : HandlerErrors("export"),
     marshalErr : HandlerErrors("marshal"),
     statusMarshals : BOOLEAN]

(* readAndCloseBody *)
readAndCloseBody(w, req) ==
    IF req.readErr # NoErr
    THEN [w |-> writeError(w, req.encoder, req.readErr, StatusBadRequest, req.statusMarshals),
          ok |-> FALSE]
    ELSE IF req.closeErr # NoErr
    THEN [w |-> writeError(w, req.encoder, req.closeErr, StatusBadRequest, req.statusMarshals),
          ok |-> FALSE]
    ELSE [w |-> w, ok |-> TRUE]

(* the part of a handler from the receiver's Export on *)
exportAndRespond(signal, w, req) ==
    LET exports == <<[signal |-> signal, encoding |-> req.encoder.name]>>
    IN  IF req.exportErr # NoErr
        THEN [w |-> writeError(w, req.encoder, req.exportErr,
                               StatusInternalServerError, req.statusMarshals),
              exports |-> exports]
        ELSE IF req.marshalErr # NoErr
        THEN [w |-> writeError(w, req.encoder, req.marshalErr,
                               StatusInternalServerError, req.statusMarshals),
              exports |-> exports]
        ELSE [w |-> writeResponse(w, req.encoder.contentType, StatusOK,
                                  Marshalled(req.encoder, signal)),
              exports |-> exports]

handleSignalNoReturn(signal, req) ==
    LET body == readAndCloseBody(<<>>, req)
    IN  IF ~body.ok
        THEN [w |-> body.w, exports |-> <<>>]
        ELSE IF req.unmarshalErr # NoErr
        THEN exportAndRespond(signal,
                 writeError(body.w, req.encoder, req.unmarshalErr,
                            StatusBadRequest, req.statusMarshals), req)
        ELSE exportAndRespond(signal, body.w, req)

(* handleTraces, handleMetrics and handleLogs: what the handler writes to  *)
(* the response and the requests it hands to the receiver's Export         *)
handleSignal(signal, req) ==
    LET body == readAndCloseBody(<<>>, req)
    IN  IF ~body.ok
        THEN [w |-> body.w, exports |-> <<>>]
        ELSE IF req.unmarshalErr # NoErr
        THEN [w |-> writeError(body.w, req.encoder, req.unmarshalErr,
                               StatusBadRequest, req.statusMarshals),
              exports |-> <<>>]
        ELSE exportAndRespond(signal, body.w, req)

Handled(op, signal, req) ==
    LET out == handleSignal(signal, req)
    IN  [op |-> op, signal |-> signal, req |-> req, w |-> out.w, exports |-> out.exports]

HandleTraces ==
    /\ otlp = NoCall
    /\ \E req \in HandlerRequests : otlp' = Handled("handleTraces", "traces", req)
    /\ UNCHANGED <<receiverVars, helperVars, cfe, oc>>
    /\ UNCHANGED <<appVars, providerVars>>

HandleMetrics ==
    /\ otlp = NoCall
    /\ \E req \in HandlerRequests : otlp' = Handled("handleMetrics", "metrics", req)
    /\ UNCHANGED <<receiverVars, helperVars, cfe, oc>>
    /\ UNCHANGED <<appVars, providerVars>>

HandleLogs ==
    /\ otlp = NoCall
    /\ \E req \in HandlerRequests : otlp' = Handled("handleLogs", "logs", req)
    /\ UNCHANGED <<receiverVars, helperVars, cfe, oc>>
    /\ UNCHANGED <<appVars, providerVars>>

(* a request whose error the server reports through errorHandler *)
ErrorHandlerRequests ==
    [contentType : ContentTypeHeaders, statusMarshals : BOOLEAN]

ErrorHandlerStatusCodes == {StatusBadRequest, StatusInternalServerError, 404, 415}

ErrorHandler ==
    /\ otlp = NoCall
    /\ \E r \in ErrorHandlerRequests, statusCode \in ErrorHandlerStatusCodes :
           otlp' = [op |-> "errorHandler", req |-> r, errMsg |-> "rejected",
                    statusCode |-> statusCode,
                    w |-> errorHandler(<<>>, r, "rejected", statusCode)]
    /\ UNCHANGED <<receiverVars, helperVars, cfe, oc>>
    /\ UNCHANGED <<appVars, providerVars>>

OtlpHttpNext ==
    \/ HandleTraces
    \/ HandleMetrics
    \/ HandleLogs
    \/ ErrorHandler

OtlpHttpInit == InitWith({WatchedConfig})

OtlpHttpSpec == OtlpHttpInit /\ [][OtlpHttpNext]_vars

(* ---- package opencensus: OpenCensus trace data to internal trace data ---- *)

TagSpanKind == "span.kind"

OpenTracingSpanKindConsumer == "consumer"

OpenTracingSpanKindProducer == "producer"

ocAttributeResourceType == "opencensus.resourcetype"

AttributeServiceName == "service.name"

(* a nil pointer, slice or map *)
NilPointer == [nil |-> TRUE]

(* maps: functions on a finite set of keys *)
EmptyMap == [k \in {} |-> NilPointer]

Delete(m, key) == [k \in (DOMAIN m) \ {key} |-> m[k]]

Merge(ma, mb) ==
    [k \in (DOMAIN ma) \cup (DOMAIN mb) |-> IF k \in DOMAIN mb THEN mb[k] ELSE ma[k]]

(* OpenCensus attribute values, and a value of a type the translator does  *)
(* not know                                                                *)
TruncatableString(value) == [Value |-> value]

AttributeValue_StringValue(ts) == [type |-> "StringValue", StringValue |-> ts]

AttributeValue_IntValue(n) == [type |-> "IntValue", IntValue |-> n]

AttributeValue_Other == [type |-> "other"]

OcAttributeValues ==
    {AttributeValue_StringValue(TruncatableString(OpenTracingSpanKindConsumer)),
     AttributeValue_StringValue(TruncatableString(OpenTracingSpanKindProducer)),
     AttributeValue_StringValue(TruncatableString("server")),
     AttributeValue_StringValue(NilPointer),
     AttributeValue_IntValue(1),
     AttributeValue_Other}

OcAttributeKeys == {TagSpanKind, "http.method"}

OcAttributeMaps == UNION {[keys -> OcAttributeValues] : keys \in SUBSET OcAttributeKeys}

OcAttributes ==
    {NilPointer} \cup
    {[AttributeMap |-> m, DroppedAttributesCount |-> d] : m \in OcAttributeMaps, d \in {0}}

(* octrace.Span_SpanKind: the three kinds of OpenCensus and a value that   *)
(* is none of them                                                         *)
OcSpanKinds == {"SPAN_KIND_UNSPECIFIED", "SERVER", "CLIENT", "unknown"}

OcResources == {NilPointer, [Type |-> "host", Labels |-> EmptyMap]}

OcNodes == {NilPointer, [ServiceInfo |-> [Name |-> "svc"]]}

OcSpan(name, kind, attributes, resource) ==
    [Name |-> name, Kind |-> kind, Attributes |-> attributes, Resource |-> resource]

(* the spans a single translation is tried on *)
OcSpans ==
    {OcSpan(TruncatableString("span"), kind, attributes, resource) :
        kind \in OcSpanKinds, attributes \in OcAttributes, resource \in OcResources}

(* the spans of a batch: nil, or a span with or without its own Resource   *)
BatchSpans ==
    {NilPointer} \cup
    {OcSpan(TruncatableString(name), "SPAN_KIND_UNSPECIFIED", attributes, resource) :
        name \in {"a", "b"},
        attributes \in {NilPointer,
                        [AttributeMap |->
                             [k \in {TagSpanKind} |->
                                 AttributeValue_StringValue(
                                     TruncatableString(OpenTracingSpanKindConsumer))],
                         DroppedAttributesCount |-> 0]},
        resource \in OcResources}

SpanSlices == UNION {[1..n -> BatchSpans] : n \in 0..MaxOcSpans}

(* consumerdata.TraceData *)
TraceDatas == [Node : OcNodes, Resource : OcResources, Spans : SpanSlices]

truncableStringToStr(ts) == IF ts = NilPointer THEN "" ELSE ts.Value

NewAttributeValueString(v) == [Type |-> "STRING", StringValue |-> v]

NewAttributeValueInt(v) == [Type |-> "INT", IntValue |-> v]

(* ocAttrsToInternal: data.Attributes{} for nil attributes *)
ocAttrsToInternal(ocAttrs) ==
    IF ocAttrs = NilPointer
    THEN [attrs |-> EmptyMap, droppedCount |-> 0]
    ELSE [attrs |->
              [key \in DOMAIN ocAttrs.AttributeMap |->
                  LET ocAttr == ocAttrs.AttributeMap[key]
                  IN  CASE ocAttr.type = "StringValue" ->
                               NewAttributeValueString(truncableStringToStr(ocAttr.StringValue))
                        [] ocAttr.type = "IntValue" ->
                               NewAttributeValueInt(ocAttr.IntValue)
                        [] OTHER ->
                               NewAttributeValueString("<Unknown OpenCensus Attribute>")],
          droppedCount |-> ocAttrs.DroppedAttributesCount]

ocSpanKindToInternalKeepsTag(ocKind, ocAttrs) ==
    LET unspecified == [kind |-> "SPAN_KIND_UNSPECIFIED", ocAttrs |-> ocAttrs]
    IN  CASE ocKind = "SERVER" -> [kind |-> "SERVER", ocAttrs |-> ocAttrs]
          [] ocKind = "CLIENT" -> [kind |-> "CLIENT", ocAttrs |-> ocAttrs]
          [] ocKind = "SPAN_KIND_UNSPECIFIED" ->
                 IF /\ ocAttrs # NilPointer
                    /\ TagSpanKind \in DOMAIN ocAttrs.AttributeMap
                    /\ ocAttrs.AttributeMap[TagSpanKind].type = "StringValue"
                 THEN LET str == truncableStringToStr(
                                     ocAttrs.AttributeMap[TagSpanKind].StringValue)
                      IN  CASE str = OpenTracingSpanKindConsumer ->
                                   [kind |-> "CONSUMER", ocAttrs |-> ocAttrs]
                            [] str = OpenTracingSpanKindProducer ->
                                   [kind |-> "PRODUCER", ocAttrs |-> ocAttrs]
                            [] OTHER -> unspecified
                 ELSE unspecified
          [] OTHER -> unspecified

(* ocSpanKindToInternal: the kind it returns, and the attributes of the    *)
(* source span as it leaves them                                           *)
ocSpanKindToInternal(ocKind, ocAttrs) ==
    LET unspecified == [kind |-> "SPAN_KIND_UNSPECIFIED", ocAttrs |-> ocAttrs]
        deleted == [ocAttrs EXCEPT !.AttributeMap = Delete(@, TagSpanKind)]
    IN  CASE ocKind = "SERVER" -> [kind |-> "SERVER", ocAttrs |-> ocAttrs]
          [] ocKind = "CLIENT" -> [kind |-> "CLIENT", ocAttrs |-> ocAttrs]
          [] ocKind = "SPAN_KIND_UNSPECIFIED" ->
                 IF /\ ocAttrs # NilPointer
                    /\ TagSpanKind \in DOMAIN ocAttrs.AttributeMap
                    /\ ocAttrs.AttributeMap[TagSpanKind].type = "StringValue"
                 THEN LET str == truncableStringToStr(
                                     ocAttrs.AttributeMap[TagSpanKind].StringValue)
                      IN  CASE str = OpenTracingSpanKindConsumer ->
                                   [kind |-> "CONSUMER", ocAttrs |-> deleted]
                            [] str = OpenTracingSpanKindProducer ->
                                   [kind |-> "PRODUCER", ocAttrs |-> deleted]
                            [] OTHER -> unspecified
                 ELSE unspecified
          [] OTHER -> unspecified

(* ocSpanToInternal: the span written to dest, the element slot of the     *)
(* slice of spans, and the source span as the translation leaves it; the   *)
(* kind is set before the attributes are translated                        *)
ocSpanToInternal(slot, ocSpan) ==
    LET kind == ocSpanKindToInternal(ocSpan.Kind, ocSpan.Attributes)
    IN  [dest |-> [slot |-> slot,
                   name |-> truncableStringToStr(ocSpan.Name),
                   kind |-> kind.kind,
                   attributes |-> ocAttrsToInternal(kind.ocAttrs)],
         src |-> [ocSpan EXCEPT !.Attributes = kind.ocAttrs]]

(* ocNodeResourceToInternal: the attributes of the Node and then those of  *)
(* the Resource, in one map                                                *)
ocNodeResourceToInternal(ocNode, ocResource) ==
    LET nodeAttrs ==
            IF ocNode # NilPointer /\ ocNode.ServiceInfo.Name # ""
            THEN [k \in {AttributeServiceName} |->
                     NewAttributeValueString(ocNode.ServiceInfo.Name)]
            ELSE EmptyMap
        labels ==
            IF ocResource # NilPointer
            THEN [k \in DOMAIN ocResource.Labels |->
                     NewAttributeValueString(ocResource.Labels[k])]
            ELSE EmptyMap
        type ==
            IF ocResource # NilPointer /\ ocResource.Type # ""
            THEN [k \in {ocAttributeResourceType} |->
                     NewAttributeValueString(ocResource.Type)]
            ELSE EmptyMap
    IN  [attributes |-> Merge(Merge(nodeAttrs, labels), type)]

NewResourceSpans(resource, spans) == [resource |-> resource, spans |-> spans]

NewITraceData(resourceSpans) == [resourceSpans |-> resourceSpans]

(* ITraceData.SpanCount *)
SpanCount(itd) ==
    LET RECURSIVE count(_)
        count(n) == IF n = 0 THEN 0
                    ELSE count(n - 1) + Len(itd.resourceSpans[n].spans)
    IN  count(Len(itd.resourceSpans))

RECURSIVE rangeSpansSharesResource(_, _, _, _)
rangeSpansSharesResource(spans, i, ptrs, separate) ==
    IF i > Len(spans)
    THEN [ptrs |-> ptrs, separate |-> separate, spans |-> spans]
    ELSE IF spans[i] = NilPointer
    THEN rangeSpansSharesResource(spans, i + 1, ptrs, separate)
    ELSE LET out == ocSpanToInternal(i, spans[i])
             left == [spans EXCEPT ![i] = out.src]
         IN  IF spans[i].Resource # NilPointer
             THEN rangeSpansSharesResource(left, i + 1, Append(ptrs, out.dest),
                      Append(separate,
                             NewResourceSpans(
                                 ocNodeResourceToInternal(NilPointer, spans[i].Resource),
                                 <<out.dest>>)))
             ELSE rangeSpansSharesResource(left, i + 1, Append(ptrs, out.dest), separate)

(* the loop of ocToInternal over td.Spans, from index i on: the spans of   *)
(* the first ResourceSpans, the separate ResourceSpans, and td.Spans as    *)
(* the translation leaves them                                             *)
RECURSIVE rangeSpans(_, _, _, _)
rangeSpans(spans, i, ptrs, separate) ==
    IF i > Len(spans)
    THEN [ptrs |-> ptrs, separate |-> separate, spans |-> spans]
    ELSE IF spans[i] = NilPointer
    THEN rangeSpans(spans, i + 1, ptrs, separate)
    ELSE LET out == ocSpanToInternal(i, spans[i])
             left == [spans EXCEPT ![i] = out.src]
         IN  IF spans[i].Resource # NilPointer
             THEN rangeSpans(left, i + 1, ptrs,
                      Append(separate,
                             NewResourceSpans(
                                 ocNodeResourceToInternal(NilPointer, spans[i].Resource),
                                 <<out.dest>>)))
             ELSE rangeSpans(left, i + 1, Append(ptrs, out.dest), separate)

(* ocToInternal: the ITraceData it returns and the TraceData as it leaves it *)
ocToInternal(td) ==
    IF td.Node = NilPointer /\ td.Resource = NilPointer /\ Len(td.Spans) = 0
    THEN [itd |-> NewITraceData(<<>>), td |-> td]
    ELSE LET resource == ocNodeResourceToInternal(td.Node, td.Resource)
             loop == rangeSpans(td.Spans, 1, <<>>, <<>>)
         IN  [itd |-> NewITraceData(<<NewResourceSpans(resource, loop.ptrs)>> \o loop.separate),
              td |-> [td EXCEPT !.Spans = loop.spans]]

OcToInternal ==
    /\ oc = NoCall
    /\ \E td \in TraceDatas :
           LET out == ocToInternal(td)
           IN  oc' = [op |-> "ocToInternal", td |-> td, itd |-> out.itd, left |-> out.td]
    /\ UNCHANGED <<receiverVars, helperVars, cfe, otlp>>
    /\ UNCHANGED <<appVars, providerVars>>

OcSpanToInternal ==
    /\ oc = NoCall
    /\ \E ocSpan \in OcSpans :
           LET out == ocSpanToInternal(1, ocSpan)
           IN  oc' = [op |-> "ocSpanToInternal", src |-> ocSpan, dest |-> out.dest,
                      left |-> out.src]
    /\ UNCHANGED <<receiverVars, helperVars, cfe, otlp>>
    /\ UNCHANGED <<appVars, providerVars>>

TranslatorNext ==
    \/ OcToInternal
    \/ OcSpanToInternal

TranslatorInit == InitWith({WatchedConfig})

TranslatorSpec == TranslatorInit /\ [][TranslatorNext]_vars

(* ---- properties ---- *)

IsPrefix(s, t) == Len(s) <= Len(t) /\ \A i \in 1..Len(s) : s[i] = t[i]

IsSuffix(s, t) ==
    Len(s) <= Len(t) /\ SubSeq(t, Len(t) - Len(s) + 1, Len(t)) = s

Reverse(s) == [i \in 1..Len(s) |-> s[Len(s) + 1 - i]]

(* ranks do not decrease along the sequence *)
Monotone(ranks) == \A i \in 1..(Len(ranks) - 1) : ranks[i] <= ranks[i + 1]

(* the calls of the log without their outcome *)
Call(e) == <<e.op, e.kind, e.id>>

Calls(s) == [i \in 1..Len(s) |-> Call(s[i])]

Ids(s) == [i \in 1..Len(s) |-> s[i].id]

PipelineKinds == {"exporter", "processor", "receiver"}

IsPipelineSetupEv(e) == e.kind \in PipelineKinds /\ e.op \in {"Build", "Start"}

IsPipelineShutdownEv(e) == e.kind \in PipelineKinds /\ e.op = "Shutdown"

IsReadyEv(e) == e.op = "Ready"

IsNotReadyEv(e) == e.op = "NotReady"

IsTeardownEv(e) == e.op \in {"NotReady", "Shutdown"}

IsStartOf(e, kind) == e.op = "Start" /\ e.kind = kind

KindRank(kind) == CASE kind = "exporter" -> 1 [] kind = "processor" -> 2
                    [] kind = "receiver" -> 3 [] OTHER -> 0

IsWatcherName(n) ==
    n \in DOMAIN config.extensions /\ IsPipelineWatcher(config.extensions[n])

(* the readiness-watching extensions of a list of names, in the list's order *)
Watchers(names) == SelectSeq(names, IsWatcherName)

(* C1: during setup every exporter's Start is called before any            *)
(* processor's Start and every processor's Start before any receiver's     *)
(* Start; when a receiver is built or started, every exporter and every    *)
(* processor of the configuration has been started, successfully.          *)
C1_StartOrder ==
    LET setup == SelectSeq(log, IsPipelineSetupEv)
        starts == SelectSeq(setup, LAMBDA e : e.op = "Start")
    IN /\ Monotone([i \in 1..Len(starts) |-> KindRank(starts[i].kind)])
       /\ Monotone([i \in 1..Len(setup) |-> IF setup[i].kind = "receiver" THEN 1 ELSE 0])
       /\ (\E i \in 1..Len(setup) : setup[i].kind = "receiver") =>
             /\ SelectSeq(starts, LAMBDA e : e.kind = "exporter")
                   = StageEvents("Start", "exporter", config.nExporters)
             /\ SelectSeq(starts, LAMBDA e : e.kind = "processor")
                   = StageEvents("Start", "processor", config.nProcessors)

C1_Witness ==
    /\ config.nExporters >= 2
    /\ config.nProcessors >= 1
    /\ \E j \in 1..Len(log) : log[j] = Ev("Start", "receiver", config.nReceivers)

(* C2: during shutdown all receivers are stopped before any processor is   *)
(* shut down, and all processors are shut down before any exporter is.     *)
C2_ShutdownOrder ==
    LET stops == SelectSeq(log, IsPipelineShutdownEv)
        of(kind) == Calls(SelectSeq(stops, LAMBDA e : e.kind = kind))
    IN /\ Monotone([i \in 1..Len(stops) |-> 4 - KindRank(stops[i].kind)])
       /\ (\E i \in 1..Len(stops) : stops[i].kind # "receiver") =>
             of("receiver") = Calls(StageEvents("Shutdown", "receiver", config.nReceivers))
       /\ (\E i \in 1..Len(stops) : stops[i].kind = "exporter") =>
             of("processor") = Calls(StageEvents("Shutdown", "processor", config.nProcessors))

C2_Witness ==
    /\ pc = "done"
    /\ trigger # "none"
    /\ config.nProcessors >= 1
    /\ \E j \in 1..Len(log) : log[j].op = "Shutdown" /\ log[j].kind = "exporter"

(* the teardown sequence of a started application *)
NotReadyCalls ==
    LET w == Reverse(Watchers(extensions))
    IN [i \in 1..Len(w) |-> <<"NotReady", "extension", w[i]>>]

ExtensionShutdownCalls ==
    LET r == Reverse(extensions)
    IN [i \in 1..Len(r) |-> <<"Shutdown", "extension", r[i]>>]

ExpectedTeardown ==
    NotReadyCalls
    \o Calls(StageEvents("Shutdown", "receiver", config.nReceivers))
    \o Calls(StageEvents("Shutdown", "processor", config.nProcessors))
    \o Calls(StageEvents("Shutdown", "exporter", config.nExporters))
    \o ExtensionShutdownCalls

TeardownCalls == Calls(SelectSeq(log, IsTeardownEv))

(* C3: whichever event ends the Running state (fatal error, OS signal,     *)
(* stop request), the calls the controller then makes are the same         *)
(* sequence: NotReady in reverse order, receivers, processors, exporters,  *)
(* extensions in reverse order; no such call is made without an event.     *)
C3_SameTeardown ==
    LET calls == TeardownCalls IN
    /\ trigger = "none" => calls = <<>>
    /\ trigger \in {"asyncError", "signal", "stopTest"} =>
          LET expected == ExpectedTeardown IN
          /\ IsPrefix(calls, expected)
          /\ pc = "done" => calls = expected

C3_Witness ==
    /\ pc = "done"
    /\ trigger = "asyncError"
    /\ Len(NotReadyCalls) >= 1
    /\ Len(TeardownCalls) >= 5

(* C4: every ReportFatalError call eventually returns; at the latest the  *)
(* call ends with the process, when execute() returns.                    *)
C4_ReportReturns ==
    \A e \in ExtNames :
        (gstate[e] = "reporting") ~> (gstate[e] = "exited" \/ pc = "done")

(* C5: once a shutdown trigger has been consumed, execute() eventually     *)
(* returns.                                                                *)
C5_ShutdownCompletes == (trigger # "none") ~> (pc = "done")

AliveOf(kinds) == {c \in alive : c.kind \in kinds}

(* C6: when an extension fails to build or start, every extension started  *)
(* before it has been shut down when execute() returns the error.          *)
C6_ExtensionsStoppedAfterExtensionFailure ==
    (pc = "done" /\ HasMsg(ret, "cannot setup extensions")) =>
        AliveOf({"extension"}) = {}

(* C7: when a step of setupPipelines fails, every started extension has    *)
(* been shut down when execute() returns the error.                        *)
C7_ExtensionsStoppedAfterPipelineFailure ==
    (pc = "done" /\ HasMsg(ret, "cannot setup pipelines")) =>
        AliveOf({"extension"}) = {}

(* C8: when a step of setupPipelines fails, no exporter, processor or      *)
(* receiver it started is still running when execute() returns.            *)
C8_NoPartialPipeline ==
    (pc = "done" /\ HasMsg(ret, "cannot setup pipelines")) =>
        AliveOf(PipelineKinds) = {}

ReadyEvents == SelectSeq(log, IsReadyEv)

(* C9: Ready() is called on the readiness-watching extensions in the       *)
(* declared order of the service's extension list, once each, after all    *)
(* receivers have been started; when the controller enters the Running     *)
(* wait every one of them has been called.                                 *)
C9_ReadyInOrder ==
    LET ready == ReadyEvents
        watchers == Watchers(config.svcExtensions)
    IN /\ IsPrefix(Ids(ready), watchers)
       /\ Monotone([i \in 1..Len(log) |->
              IF log[i].op \in {"Create", "Build", "Start"} THEN 0
              ELSE IF log[i].op = "Ready" THEN 1 ELSE 2])
       /\ ready # <<>> =>
             SelectSeq(log, LAMBDA e : IsStartOf(e, "receiver"))
                = StageEvents("Start", "receiver", config.nReceivers)
       /\ (pc \in {"runAndWait", "closeReady", "select"} \/ trigger # "none") =>
             /\ Ids(ready) = watchers
             /\ \A i \in 1..Len(ready) : ~ready[i].failed

C9_Witness ==
    /\ pc = "select"
    /\ Len(ReadyEvents) >= 2

NotReadyEvents == SelectSeq(log, IsNotReadyEv)

NotifyErrors ==
    SelectSeq(errs, LAMBDA err : err[1].msg = "failed to notify that pipeline is not ready")

(* C10: NotReady() is called once on each readiness-watching extension in  *)
(* reverse order, before any receiver is stopped, whether or not an        *)
(* earlier NotReady() failed; the errors form one aggregate error.         *)
C10_NotReadyReverse ==
    LET notReady == NotReadyEvents
        expected == Reverse(Watchers(extensions))
        failures == {notReady[i].id : i \in {j \in 1..Len(notReady) : notReady[j].failed}}
        notifyErrors == NotifyErrors
    IN /\ IsPrefix(Ids(notReady), expected)
       /\ Monotone([i \in 1..Len(log) |->
              IF log[i].op = "NotReady" THEN 0
              ELSE IF log[i].op = "Shutdown" THEN 1 ELSE 0])
       /\ (trigger # "none" /\ pc # "notifyNotReady") =>
             /\ Ids(notReady) = expected
             /\ IF failures = {}
                THEN notifyErrors = <<>>
                ELSE /\ Len(notifyErrors) = 1
                     /\ notifyErrors[1][2] = [msg |-> "combined", id |-> Cardinality(failures)]
                     /\ \A f \in failures :
                           Mentions(notifyErrors[1],
                               "error notifying extension that the pipeline was shutdown", f)

C10_Witness ==
    /\ pc = "done"
    /\ Len(NotReadyEvents) >= 2
    /\ NotReadyEvents[1].failed

ExtensionShutdownEvents ==
    SelectSeq(log, LAMBDA e : e.op = "Shutdown" /\ e.kind = "extension")

ExtensionShutdownErrors ==
    SelectSeq(errs, LAMBDA err : err[1].msg = "failed to shutdown extensions")

(* C11: during the shutdown sequence Shutdown() is called once on each     *)
(* started extension, in the reverse of the order they were started in,    *)
(* whether or not an earlier Shutdown() failed; when execute() returns,    *)
(* the failures are in one aggregate error that names every extension      *)
(* whose Shutdown() failed.                                                *)
C11_ExtensionsShutdownReverse ==
    LET stops == ExtensionShutdownEvents
        failures == {stops[i].id : i \in {j \in 1..Len(stops) : stops[j].failed}}
        shutdownErrors == ExtensionShutdownErrors
    IN /\ IsPrefix(Ids(stops), Reverse(extensions))
       /\ (pc = "done" /\ trigger # "none") =>
             /\ Ids(stops) = Reverse(extensions)
             /\ IF failures = {}
                THEN shutdownErrors = <<>>
                ELSE /\ Len(shutdownErrors) = 1
                     /\ shutdownErrors[1][2] = [msg |-> "combined", id |-> Cardinality(failures)]
                     /\ IsSuffix(shutdownErrors[1], ret)
                     /\ \A f \in failures :
                           Mentions(shutdownErrors[1], "error shutting down extension", f)

C11_Witness ==
    /\ pc = "done"
    /\ Len(ExtensionShutdownEvents) >= 2
    /\ ExtensionShutdownEvents[1].failed
    /\ ~ExtensionShutdownEvents[2].failed

IsExtensionSetupEv(e) == e.kind = "extension" /\ e.op \in {"Create", "Start"}

IsExtensionShutdownEv(e) == e.kind = "extension" /\ e.op = "Shutdown"

BracketRank(e) ==
    IF IsExtensionSetupEv(e) THEN 0 ELSE IF IsExtensionShutdownEv(e) THEN 2 ELSE 1

(* C12: the extensions bracket the pipelines.  When an exporter, processor *)
(* or receiver is built or started, every extension of the service's list  *)
(* has been started, successfully, and no extension is created or started  *)
(* afterwards; when Shutdown() is called on an extension, Shutdown() has   *)
(* been called on every receiver, processor and exporter, and no pipeline  *)
(* component is touched afterwards.                                        *)
C12_ExtensionsBracketPipelines ==
    LET pipeline == SelectSeq(log, LAMBDA e : e.kind \in PipelineKinds)
        started == SelectSeq(log, LAMBDA e : IsStartOf(e, "extension") /\ ~e.failed)
        stops == SelectSeq(pipeline, IsPipelineShutdownEv)
    IN /\ Monotone([i \in 1..Len(log) |-> BracketRank(log[i])])
       /\ pipeline # <<>> =>
             /\ Ids(started) = config.svcExtensions
             /\ extensions = config.svcExtensions
       /\ ExtensionShutdownEvents # <<>> =>
             /\ Calls(stops) =
                   Calls(StageEvents("Shutdown", "receiver", config.nReceivers))
                   \o Calls(StageEvents("Shutdown", "processor", config.nProcessors))
                   \o Calls(StageEvents("Shutdown", "exporter", config.nExporters))
             /\ AliveOf(PipelineKinds) = {}

C12_Witness ==
    /\ pc = "done"
    /\ Len(config.svcExtensions) >= 2
    /\ config.nProcessors >= 1
    /\ Len(ExtensionShutdownEvents) = Len(config.svcExtensions)

(* some call of the teardown on a component of the kinds failed *)
TeardownFailed(op, kinds) ==
    \E i \in 1..Len(log) : log[i].op = op /\ log[i].kind \in kinds /\ log[i].failed

(* the number of shutdown functions of execute() that returned an error *)
FailedShutdownFunctions ==
    (IF TeardownFailed("NotReady", {"extension"}) THEN 1 ELSE 0)
    + (IF TeardownFailed("Shutdown", PipelineKinds) THEN 1 ELSE 0)
    + (IF TeardownFailed("Shutdown", {"extension"}) THEN 1 ELSE 0)

(* C13: when execute() returns after a shutdown event, every stage of the  *)
(* teardown has made all its calls, whatever failed before it, and the     *)
(* value returned is nil exactly when no stage reported an error;          *)
(* otherwise it is one aggregate that carries the message of each stage    *)
(* that failed and of no other stage.                                      *)
C13_TeardownAccumulates ==
    (pc = "done" /\ trigger # "none") =>
        /\ TeardownCalls = ExpectedTeardown
        /\ (ret = Nil) <=> (FailedShutdownFunctions = 0)
        /\ ret # Nil => ret[1] = [msg |-> "combined", id |-> FailedShutdownFunctions]
        /\ HasMsg(ret, "failed to notify that pipeline is not ready")
              <=> TeardownFailed("NotReady", {"extension"})
        /\ HasMsg(ret, "failed to stop receivers")
              <=> TeardownFailed("Shutdown", {"receiver"})
        /\ HasMsg(ret, "failed to shutdown processors")
              <=> TeardownFailed("Shutdown", {"processor"})
        /\ HasMsg(ret, "failed to shutdown exporters")
              <=> TeardownFailed("Shutdown", {"exporter"})
        /\ HasMsg(ret, "failed to shutdown pipelines")
              <=> TeardownFailed("Shutdown", PipelineKinds)
        /\ HasMsg(ret, "failed to shutdown extensions")
              <=> TeardownFailed("Shutdown", {"extension"})

C13_Witness ==
    /\ pc = "done"
    /\ TeardownFailed("NotReady", {"extension"})
    /\ TeardownFailed("Shutdown", {"receiver"})
    /\ ~TeardownFailed("Shutdown", {"exporter"})
    /\ ExtensionShutdownEvents # <<>>

(* C14: the value execute() returns tells the trigger of the shutdown      *)
(* apart: after a fatal error reported by a component it is a non-nil      *)
(* error, after an OS signal and a teardown without errors it is nil.      *)
C14_OutcomeByTrigger ==
    pc = "done" =>
        /\ trigger = "asyncError" => ret # Nil
        /\ (trigger = "signal" /\ FailedShutdownFunctions = 0) => ret = Nil

ReadyFailed == \E i \in 1..Len(log) : log[i].op = "Ready" /\ log[i].failed

(* C15: when Ready() of an extension returns an error, no Ready() is       *)
(* called after it, execute() has returned an error that names the         *)
(* extension, readyChan is never closed and no shutdown event is waited    *)
(* for or consumed.                                                        *)
C15_ReadyFailureAborts ==
    ReadyFailed =>
        LET ready == ReadyEvents
            last == ready[Len(ready)]
        IN /\ last.failed
           /\ \A i \in 1..(Len(ready) - 1) : ~ready[i].failed
           /\ log[Len(log)] = last
           /\ pc = "done"
           /\ ~readyClosed
           /\ ~stopChan
           /\ trigger = "none"
           /\ ret # Nil
           /\ ret[1] = [msg |-> "error notifying extension that the pipeline was started",
                        id |-> last.id]

C15_Witness ==
    /\ ReadyFailed
    /\ Len(ReadyEvents) = 1
    /\ Len(Watchers(config.svcExtensions)) = 2

SetupPositions ==
    {"setupTelemetry", "loadConfig", "setupExtensions", "runAndWait", "closeReady",
     "select"}
    \cup Range(SetupPipelinesOrder)

(* execute() has not returned and the controller can take no step *)
ControllerBlocked == pc # "done" /\ ~ENABLED Controller

(* C16: the controller blocks nowhere but in the select of the Running     *)
(* wait; the wait ends on one event (fatal error, signal or stop request), *)
(* after which the controller is in the teardown and never back in the     *)
(* wait, so it consumes at most one fatal-error report and starts the      *)
(* teardown at most once.                                                  *)
C16_SingleWait ==
    /\ ControllerBlocked => pc = "select"
    /\ pc = "select" => trigger = "none"
    /\ trigger # "none" =>
          /\ trigger \in {"asyncError", "signal", "stopTest"}
          /\ pc \notin SetupPositions

HasUndefinedReference ==
    UndefinedExtensions(cfgFile) # <<>> \/ cfgFile.undefinedRef # "none"

(* the error names a component that is referenced but not configured *)
NamesUndefinedReference(err) ==
    \/ \E n \in Range(UndefinedExtensions(cfgFile)) :
          \/ Mentions(err, "service references extension which does not exist", n)
          \/ Mentions(err, "extension is not configured", n)
    \/ /\ cfgFile.undefinedRef # "none"
       /\ \E i \in 1..Len(err) : err[i].id = UndefinedRefName(cfgFile)
                                   /\ err[i].msg # "component error"

GetFailedAt(msg) == got.err # Nil /\ got.err[1].msg = msg

(* C18 as claimed: after a Get that failed at resolve/merge or at          *)
(* unmarshal, no configuration was returned and lastResolvedConfig is      *)
(* empty.                                                                  *)
C18_FailedGetLeavesNothing ==
    (GetFailedAt("cannot resolve the configuration")
        \/ GetFailedAt("cannot unmarshal the configuration")) =>
        /\ got.cfg = NoCfg
        /\ lastResolvedConfig = NoBytes

(* C18 as amended: after a Get that failed at resolve/merge or at          *)
(* unmarshal, no configuration was returned and lastResolvedConfig never   *)
(* holds the snapshot of an earlier Get: it is empty after a failure at    *)
(* resolve/merge, and after a failure at unmarshal it is the YAML of the   *)
(* document of the failed attempt, or empty when that could not be         *)
(* computed.                                                               *)
C18_FailedGetKeepsNoEarlierSnapshot ==
    /\ GetFailedAt("cannot resolve the configuration") =>
          /\ got.cfg = NoCfg
          /\ lastResolvedConfig = NoBytes
    /\ GetFailedAt("cannot unmarshal the configuration") =>
          /\ got.cfg = NoCfg
          /\ lastResolvedConfig = SnapshotOf(got)

C18_Witness ==
    /\ GetFailedAt("cannot unmarshal the configuration")
    /\ lastResolvedConfig = ToYAML(got.retMap)
    /\ lastKnownGoodConfig \notin {NoBytes, lastResolvedConfig}

(* C19: whatever the order of the calls, lastKnownGoodConfig is the        *)
(* snapshot of the Get that the most recent ConfigUpdateSucceeded          *)
(* acknowledged (the Get most recent at that call): ConfigUpdateSucceeded  *)
(* advances it to that snapshot, a later Get or ConfigUpdateFailed leaves  *)
(* it alone, and it is what either call hands to the resolver as the last  *)
(* known good configuration.                                               *)
C19_KnownGoodFollowsAcks ==
    /\ lastKnownGoodConfig = acked
    /\ reported.op # "none" => reported.args[1] = acked

C19_Witness ==
    /\ reported.op = "ConfigUpdateFailed"
    /\ got.err = Nil
    /\ got.cfg # NoCfg
    /\ lastKnownGoodConfig # NoBytes
    /\ lastResolvedConfig \notin {NoBytes, lastKnownGoodConfig}
    /\ reported.args[2] = lastResolvedConfig

(* C17: while the controller is in the Running wait, a "changed" signal    *)
(* on the provider's Watch channel is taken off the channel by the         *)
(* controller (which then calls Get again and acknowledges the outcome),   *)
(* and an error on the Watch channel ends the wait like a fatal error,     *)
(* unless another event ends the wait first.                               *)
C17_WatchHandled ==
    /\ (pc = "select" /\ watchCh = "changed")
          ~> (watchCh = "none" \/ trigger # "none")
    /\ (pc = "select" /\ watchCh = "error") ~> (trigger # "none")

(* the factory of extension n returned a nil extension and no error: the   *)
(* log ends with the successful Create and no Start follows it             *)
NilExtensionCreated(n) ==
    log # <<>> /\ log[Len(log)] = Ev("Create", "extension", n)

(* C21: when the factory of an extension returns nil without an error,     *)
(* execute() returns an error that names the extension; the nil extension  *)
(* is not started and not kept in app.extensions, and nothing is created   *)
(* or started after it.  Every other successful Create of an extension is  *)
(* directly followed by the Start of that extension.                       *)
C21_NilExtensionAborts ==
    /\ \A i \in 1..(Len(log) - 1) :
          (log[i].op = "Create" /\ log[i].kind = "extension" /\ ~log[i].failed) =>
              Call(log[i + 1]) = <<"Start", "extension", log[i].id>>
    /\ \A n \in ExtNames :
          NilExtensionCreated(n) =>
              /\ pc = "done"
              /\ ret = Wrap(Errorf("factory produced a nil extension", n),
                            "cannot setup extensions", 0)
              /\ n \notin Range(extensions)
              /\ Comp("extension", n) \notin alive
              /\ gstate[n] = "none"

C21_Witness ==
    /\ NilExtensionCreated(1)
    /\ Len(config.svcExtensions) = 2
    /\ pc = "done"

(* the listed extensions that are configured with a type no factory is     *)
(* registered for, in the list's order                                     *)
UnknownTypeExtensions ==
    SelectSeq(cfgFile.svcExtensions,
              LAMBDA n : n \in DOMAIN cfgFile.extensions
                         /\ cfgFile.extensions[n] \notin ExtensionFactories)

(* the names of the service's extension list before name n *)
NamesBefore(n) == SelectSeq(cfgFile.svcExtensions, LAMBDA m : m < n)

(* C22: when a listed extension has a type without a registered factory,   *)
(* no exporter, processor or receiver is built or started in the run, the  *)
(* controller never gets past setupExtensions, and once the extensions     *)
(* before it have been started execute() returns the 'factory is not       *)
(* configured' error.                                                      *)
C22_MissingFactoryAborts ==
    UnknownTypeExtensions # <<>> =>
        LET n == UnknownTypeExtensions[1] IN
        /\ SelectSeq(log, LAMBDA e : e.kind \in PipelineKinds) = <<>>
        /\ AliveOf(PipelineKinds) = {}
        /\ pc \in {"setupTelemetry", "loadConfig", "setupExtensions", "done"}
        /\ trigger = "none"
        /\ SelectSeq(log, LAMBDA e : e.kind = "extension" /\ e.id >= n) = <<>>
        /\ (pc = "done" /\ config # NoConfig /\ extensions = NamesBefore(n)) =>
              ret = Wrap(Errorf("extension factory for type is not configured", n),
                         "cannot setup extensions", 0)

C22_Witness ==
    /\ UnknownTypeExtensions = <<2>>
    /\ extensions = <<1>>
    /\ pc = "done"

IsFailedPipelineSetupEv(e) == IsPipelineSetupEv(e) /\ e.failed

(* the message with which setupPipelines wraps the error of a step *)
StepMessage(e) ==
    CASE e.op = "Build" /\ e.kind = "exporter" -> "cannot build exporters"
      [] e.op = "Start" /\ e.kind = "exporter" -> "cannot start exporters"
      [] e.op = "Build" /\ e.kind = "processor" -> "cannot build pipelines"
      [] e.op = "Start" /\ e.kind = "processor" -> "cannot start processors"
      [] e.op = "Build" /\ e.kind = "receiver" -> "cannot build receivers"
      [] e.op = "Start" /\ e.kind = "receiver" -> "cannot start receivers"
      [] OTHER -> "none"

(* C23: when building or starting a pipeline component fails, that call is *)
(* the last call the controller makes on any component: nothing of the     *)
(* same or a later stage is built or started after it, and execute() has   *)
(* returned an error that carries the message of the step that failed.     *)
C23_PipelineFailureAborts ==
    LET failures == SelectSeq(log, IsFailedPipelineSetupEv) IN
    failures # <<>> =>
        /\ Len(failures) = 1
        /\ log[Len(log)] = failures[1]
        /\ pc = "done"
        /\ trigger = "none"
        /\ ret[1] = [msg |-> "cannot setup pipelines", id |-> 0]
        /\ ret[2] = [msg |-> StepMessage(failures[1]), id |-> 0]

C23_Witness ==
    /\ log # <<>>
    /\ log[Len(log)] = Failed("Start", "exporter", 2)
    /\ config.nProcessors >= 1

(* C24: the configuration is loaded before the telemetry is initialised    *)
(* and before any component is created; when loading it fails, execute()   *)
(* returns the error and leaves nothing initialised: no telemetry, no      *)
(* extension, no pipeline component.                                       *)
C24_ConfigBeforeTelemetry ==
    /\ (telemetry # "none" \/ log # <<>>) => config # NoConfig
    /\ (pc = "done" /\ HasMsg(ret, "cannot load configuration")) =>
          /\ telemetry \in {"none", "shutdown"}
          /\ log = <<>>
          /\ alive = {}

ExporterEvents(op) == SelectSeq(log, LAMBDA e : e.kind = "exporter" /\ e.op = op)

HasDuplicateType(fs) ==
    \E i, j \in 1..Len(fs) : i # j /\ fs[i].type = fs[j].type

(* C26: MakeFactoryMap returns an error when two factories of its list     *)
(* have the same type; otherwise it returns no error and a map that has,   *)
(* for every factory of the list, exactly one entry: that factory, under   *)
(* its type.                                                               *)
C26_FactoryMapRejectsDuplicates ==
    fMap # NoCall =>
        IF HasDuplicateType(fMap.in)
        THEN fMap.err # Nil
        ELSE /\ fMap.err = Nil
             /\ DOMAIN fMap.map = {fMap.in[i].type : i \in 1..Len(fMap.in)}
             /\ Cardinality(DOMAIN fMap.map) = Len(fMap.in)
             /\ \A i \in 1..Len(fMap.in) : fMap.map[fMap.in[i].type] = fMap.in[i]

C26_Witness ==
    /\ fMap # NoCall
    /\ Len(fMap.in) = 3
    /\ HasDuplicateType(fMap.in)
    /\ fMap.err # Nil

(* C27: a Create call of the receiver Builder returns a nil component and  *)
(* an "is not configured" error naming the ID when the ID has no entry in  *)
(* the builder's configurations; a nil component and a "factory not        *)
(* available" error naming the ID when the ID is configured and no factory *)
(* is registered for its type; and otherwise what the factory registered   *)
(* for the ID's type creates, also when the ID is a named instance.        *)
C27_BuilderCreateErrors ==
    created # NoCall =>
        LET id == created.id
        IN  /\ id \notin builder.cfgs =>
                  /\ created.comp = NilReceiver
                  /\ created.err = Errorf("receiver is not configured", IDString(id))
            /\ (id \in builder.cfgs /\ id.type \notin DOMAIN builder.factories) =>
                  /\ created.comp = NilReceiver
                  /\ created.err = Errorf("receiver factory not available for", IDString(id))
            /\ (id \in builder.cfgs /\ id.type \in DOMAIN builder.factories) =>
                  LET r == CreateReceiver(builder.factories[id.type], created.op, id)
                  IN  /\ created.comp = r.comp
                      /\ created.err = r.err
                      /\ created.err = Nil => created.comp.factory = id.type

C27_Witness ==
    /\ created # NoCall
    /\ created.id \in builder.cfgs
    /\ created.id.type \notin DOMAIN builder.factories
    /\ DOMAIN builder.factories # {}
    /\ created.comp = NilReceiver
    /\ HasMsg(created.err, "receiver factory not available for")

(* C28: NewTraceExporter and NewITraceExporter return a nil exporter and   *)
(* errNilConfig when the config is nil; a nil exporter and                 *)
(* errNilPushTraceData when the config is not nil and the data pusher is   *)
(* nil; and otherwise a non-nil exporter and a nil error.                  *)
C28_NewExporterNilChecks ==
    te # NoCall =>
        /\ te.config = NilExporterConfig =>
              te.exp = NilExporter /\ te.err = errNilConfig
        /\ (te.config # NilExporterConfig /\ te.dataPusher = NilPusher) =>
              te.exp = NilExporter /\ te.err = errNilPushTraceData
        /\ (te.config # NilExporterConfig /\ te.dataPusher # NilPusher) =>
              te.exp # NilExporter /\ ~te.exp.nil /\ te.err = Nil

C28_Witness ==
    /\ te # NoCall
    /\ te.config = NilExporterConfig
    /\ te.dataPusher = NilPusher
    /\ te.err = errNilConfig

(* the shutdown function the options give: that of the last WithShutdown,  *)
(* or the nil func when there is none                                      *)
GivenShutdown(options) ==
    LET given == {i \in 1..Len(options) : options[i].option = "WithShutdown"}
    IN  IF given = {} THEN NilShutdown
        ELSE options[CHOOSE i \in given : \A j \in given : j <= i].shutdown

(* C29: on an exporter that the helper built, every ConsumeTraceData or    *)
(* ConsumeITrace call returns the error the pusher given to the helper     *)
(* returns, nil included, and Shutdown returns what the shutdown function  *)
(* given with WithShutdown returns, or nil when no function was given.     *)
C29_ExporterReturnsPusherError ==
    teCall # NoCall =>
        /\ teCall.op \in {"ConsumeTraceData", "ConsumeITrace"} =>
              teCall.ret = te.dataPusher.retError
        /\ teCall.op = "Shutdown" =>
              teCall.ret = IF GivenShutdown(te.options).nil
                           THEN Nil
                           ELSE GivenShutdown(te.options).ret

C29_Witness ==
    /\ teCall # NoCall
    /\ teCall.op = "ConsumeITrace"
    /\ te.dataPusher.retError = MyError
    /\ teCall.ret = MyError

(* the controller is in setup: extensions or pipeline stages are still     *)
(* being built and started                                                 *)
InSetup ==
    pc \in {"setupExtensions", "buildExporters", "startExporters", "buildPipelines",
            "startProcessors", "buildReceivers", "startReceivers"}

(* C30: a fatal error that a started extension reports while the           *)
(* controller is still in setup is not lost: execute() eventually returns, *)
(* either because setup failed, or after the controller left the Running   *)
(* wait on a fatal-error report and performed the shutdown sequence.       *)
C30_SetupReportTriggersShutdown ==
    \A e \in ExtNames :
        (InSetup /\ gstate[e] = "reporting") ~>
            (pc = "done" /\ trigger \in {"none", "asyncError"})

(* setupExtensions returned nil *)
ExtensionSetupSucceeded ==
    /\ pc \notin {"setupTelemetry", "loadConfig", "setupExtensions"}
    /\ ~(pc = "done" /\ (HasMsg(ret, "cannot load configuration")
                         \/ HasMsg(ret, "cannot setup extensions")))

ExtensionErrorMsgs ==
    {"error notifying extension that the pipeline was started",
     "error notifying extension that the pipeline was shutdown",
     "error shutting down extension"}

(* every extension error of the chain names the extension whose call       *)
(* returned the error that it wraps                                        *)
Attributed(chain) ==
    \A i \in 1..Len(chain) :
        chain[i].msg \in ExtensionErrorMsgs =>
            /\ i < Len(chain)
            /\ chain[i + 1] = [msg |-> "component error", id |-> chain[i].id]

(* C31: app.extensions holds, in the order of the service's extension      *)
(* list, the extensions whose Start returned nil and no other; once        *)
(* setupExtensions has succeeded it is equal to that list, index by index, *)
(* so that every Ready, NotReady and Shutdown error names the extension    *)
(* that returned it.                                                       *)
C31_ExtensionsRetainedInOrder ==
    /\ IsPrefix(extensions, config.svcExtensions)
    /\ extensions =
          Ids(SelectSeq(log, LAMBDA e : IsStartOf(e, "extension") /\ ~e.failed))
    /\ ExtensionSetupSucceeded => extensions = config.svcExtensions
    /\ Attributed(ret)
    /\ \A k \in 1..Len(errs) : Attributed(errs[k])
    /\ \A k \in 1..Len(local) : Attributed(local[k])

C31_Witness ==
    /\ pc = "done"
    /\ Len(extensions) = 2
    /\ Mentions(ret, "error shutting down extension", 1)
    /\ Mentions(ret, "error notifying extension that the pipeline was shutdown", 2)

(* the step calls Start on an extension or on the components of a stage *)
CallsStart ==
    \E i \in (Len(log) + 1)..Len(log') : log'[i].op = "Start"

(* C32: app.config is set when Start is called on an extension or on a     *)
(* pipeline component, so that a Start that reads the configuration from   *)
(* the host never reads nil, and once set app.config is never assigned     *)
(* again.                                                                  *)
C32_ConfigSetBeforeStart ==
    [][/\ CallsStart => (config # NoConfig /\ config' = config)
       /\ config # NoConfig => config' = config]_vars

C32_Witness ==
    /\ config # NoConfig
    /\ pc = "done"
    /\ \E i \in 1..Len(log) : IsStartOf(log[i], "extension")
    /\ \E i \in 1..Len(log) : IsStartOf(log[i], "receiver")

(* C33: app.stopTestChan exists whenever readyChan is closed, so a party   *)
(* that saw readiness can issue the stop request; as long as no event has  *)
(* ended the Running wait the controller is then in the select, where the  *)
(* stop request is received and the shutdown sequence begins; readyChan is *)
(* not closed when the controller is about to close it.                    *)
C33_StopRequestAfterReady ==
    /\ readyClosed => stopChan
    /\ pc = "closeReady" => ~readyClosed
    /\ (readyClosed /\ trigger = "none") =>
          /\ pc = "select"
          /\ ENABLED ReceiveStopTest
    /\ trigger = "stopTest" =>
          /\ readyClosed
          /\ pc \in Range(ShutdownOrder) \cup {"done"}

C33_Witness ==
    /\ trigger = "stopTest"
    /\ pc = "done"
    /\ Len(TeardownCalls) >= 3

(* C34: when Start succeeded, the Shutdown of a config UI extension has    *)
(* returned only if the serving goroutine has exited and stopCh is closed; *)
(* and Shutdown waits on stopCh only when Start succeeded.                 *)
C34_ShutdownWaitsForGoroutine ==
    cfe # NoCall =>
        /\ (cfe.shutdown = "returned" /\ cfe.start = "ok") =>
              (cfe.goroutine = "exited" /\ cfe.stopCh = "closed")
        /\ cfe.shutdown = "waiting" => cfe.start = "ok"

(* C35: lastKnownGoodConfig changes only in a ConfigUpdateSucceeded step;  *)
(* a Get, whether it succeeds or fails, a change of the sources signalled  *)
(* on the Watch channel and a ConfigUpdateFailed leave it unchanged, and   *)
(* a ConfigUpdateFailed leaves lastResolvedConfig unchanged as well.       *)
C35_KnownGoodFrame ==
    [][/\ lastKnownGoodConfig' # lastKnownGoodConfig =>
             /\ ConfigUpdateSucceeded
             /\ lastKnownGoodConfig' = lastResolvedConfig
       /\ (Get \/ SourceChanged) => lastKnownGoodConfig' = lastKnownGoodConfig
       /\ (\E err \in {got.err, ApplyError} : ConfigUpdateFailed(err)) =>
             /\ lastKnownGoodConfig' = lastKnownGoodConfig
             /\ lastResolvedConfig' = lastResolvedConfig]_vars

C35_Witness ==
    /\ reported.op = "ConfigUpdateFailed"
    /\ got.err # Nil
    /\ lastKnownGoodConfig # NoBytes
    /\ reported.args = <<lastKnownGoodConfig, lastResolvedConfig, got.err>>

(* ---- the OTLP/HTTP handlers ---- *)

IsHandled == otlp # NoCall /\ otlp.op \in {"handleTraces", "handleMetrics", "handleLogs"}

(* reading, closing or unmarshalling the request body failed *)
BodyFailed(req) ==
    req.readErr # NoErr \/ req.closeErr # NoErr \/ req.unmarshalErr # NoErr

(* the body was read and unmarshalled, and the receiver's Export or the    *)
(* marshalling of its response failed                                      *)
ExportFailed(req) ==
    ~BodyFailed(req) /\ (req.exportErr # NoErr \/ req.marshalErr # NoErr)

(* C36, as stated: a handler writes exactly one response per request, with *)
(* status 400 when reading, closing or unmarshalling the body fails, with  *)
(* status 500 when Export or the marshalling of the response fails, and    *)
(* with status 200 and the encoder's content type otherwise; Export is not *)
(* called for a request whose body failed to read or unmarshal             *)
C36_AsStated ==
    IsHandled =>
        /\ Len(otlp.w) = 1
        /\ BodyFailed(otlp.req) => otlp.w[1].statusCode = StatusBadRequest
        /\ ExportFailed(otlp.req) => otlp.w[1].statusCode = StatusInternalServerError
        /\ (~BodyFailed(otlp.req) /\ ~ExportFailed(otlp.req)) =>
               /\ otlp.w[1].statusCode = StatusOK
               /\ otlp.w[1].contentType = otlp.req.encoder.contentType
        /\ BodyFailed(otlp.req) => otlp.exports = <<>>

(* C36, amended: a handler writes exactly one response per request; when   *)
(* reading, closing or unmarshalling the body fails the status is 400 if   *)
(* the rpc status of the error can be marshalled and otherwise 500 with    *)
(* the fallback body; when Export or the marshalling of the response fails *)
(* the status is 500; otherwise it is 200 with the encoder's content type  *)
(* and the marshalled response; Export is not called for a request whose   *)
(* body failed to read, close or unmarshal, and is called once otherwise   *)
C36_OneResponsePerRequest ==
    IsHandled =>
        /\ Len(otlp.w) = 1
        /\ (BodyFailed(otlp.req) /\ otlp.req.statusMarshals) =>
               /\ otlp.w[1].statusCode = StatusBadRequest
               /\ otlp.w[1].contentType = otlp.req.encoder.contentType
        /\ (BodyFailed(otlp.req) /\ ~otlp.req.statusMarshals) =>
               otlp.w[1] = [contentType |-> fallbackContentType,
                            statusCode |-> StatusInternalServerError,
                            msg |-> fallbackMsg]
        /\ ExportFailed(otlp.req) => otlp.w[1].statusCode = StatusInternalServerError
        /\ (~BodyFailed(otlp.req) /\ ~ExportFailed(otlp.req)) =>
               /\ otlp.w[1].statusCode = StatusOK
               /\ otlp.w[1].contentType = otlp.req.encoder.contentType
               /\ otlp.w[1].msg = Marshalled(otlp.req.encoder, otlp.signal)
        /\ BodyFailed(otlp.req) => otlp.exports = <<>>
        /\ ~BodyFailed(otlp.req) => Len(otlp.exports) = 1

(* a request whose body was read and closed and did not unmarshal: one     *)
(* response with status 400, and no call of Export                         *)
C36_Witness ==
    /\ IsHandled
    /\ otlp.req.readErr = NoErr
    /\ otlp.req.closeErr = NoErr
    /\ otlp.req.unmarshalErr = PlainError("unmarshal")
    /\ otlp.req.exportErr = NoErr
    /\ otlp.req.statusMarshals
    /\ Len(otlp.w) = 1
    /\ otlp.w[1].statusCode = StatusBadRequest
    /\ otlp.exports = <<>>

(* the error a handler answers with an error response, and the status code *)
(* it asks for                                                              *)
HandlerError(req) ==
    CASE req.readErr # NoErr      -> [err |-> req.readErr, statusCode |-> StatusBadRequest]
      [] req.closeErr # NoErr     -> [err |-> req.closeErr, statusCode |-> StatusBadRequest]
      [] req.unmarshalErr # NoErr -> [err |-> req.unmarshalErr, statusCode |-> StatusBadRequest]
      [] req.exportErr # NoErr    -> [err |-> req.exportErr, statusCode |-> StatusInternalServerError]
      [] OTHER                    -> [err |-> req.marshalErr, statusCode |-> StatusInternalServerError]

(* the code of the rpc status of an error response *)
ExpectedCode(err, statusCode) ==
    IF err.kind = "status" THEN err.code
    ELSE IF statusCode = StatusBadRequest THEN "InvalidArgument"
    ELSE "Unknown"

FallbackResponse ==
    [contentType |-> fallbackContentType, statusCode |-> StatusInternalServerError,
     msg |-> fallbackMsg]

(* the encoders errorHandler chooses from, by the media type of the request *)
EncoderOfMediaType(header) ==
    {e \in Encoders : header.wellFormed /\ header.mediatype = e.contentType}

(* C37: an error response carries, with the requested HTTP status and in   *)
(* the encoder's encoding, an rpc status whose code is the error's own     *)
(* gRPC code when the error is a gRPC status, InvalidArgument when it is   *)
(* not and the HTTP status is 400, and Unknown otherwise; when the status  *)
(* cannot be marshalled, or errorHandler is called for a request whose     *)
(* content type is neither protobuf nor JSON, the response is the fixed    *)
(* JSON fallback with HTTP status 500 whatever status code was requested   *)
C37_ErrorResponseStatus ==
    /\ (IsHandled /\ (BodyFailed(otlp.req) \/ ExportFailed(otlp.req))) =>
           LET e == HandlerError(otlp.req)
           IN  otlp.w =
                   IF otlp.req.statusMarshals
                   THEN <<[contentType |-> otlp.req.encoder.contentType,
                           statusCode |-> e.statusCode,
                           msg |-> Marshalled(otlp.req.encoder,
                                      RpcStatus(ExpectedCode(e.err, e.statusCode), e.err.msg))]>>
                   ELSE <<FallbackResponse>>
    /\ (otlp # NoCall /\ otlp.op = "errorHandler") =>
           LET encs == EncoderOfMediaType(otlp.req.contentType)
           IN  otlp.w =
                   IF encs # {} /\ otlp.req.statusMarshals
                   THEN <<[contentType |-> (CHOOSE e \in encs : TRUE).contentType,
                           statusCode |-> otlp.statusCode,
                           msg |-> Marshalled(CHOOSE e \in encs : TRUE,
                                      RpcStatus(ExpectedCode(PlainError(otlp.errMsg),
                                                             otlp.statusCode),
                                                otlp.errMsg))]>>
                   ELSE <<FallbackResponse>>

(* a request that does not unmarshal, with a gRPC status error: the        *)
(* response has HTTP status 400 and the rpc code of the error              *)
C37_Witness ==
    /\ IsHandled
    /\ otlp.req.readErr = NoErr
    /\ otlp.req.closeErr = NoErr
    /\ otlp.req.unmarshalErr = StatusError("Unavailable", "unmarshal")
    /\ otlp.req.statusMarshals
    /\ otlp.w[1].statusCode = StatusBadRequest
    /\ otlp.w[1].msg.value.code = "Unavailable"

(* ---- the OpenCensus translator ---- *)

(* the indexes of the spans that are not nil and whose having a Resource   *)
(* of their own is as own says, in input order                             *)
SpanIndexes(spans, own) ==
    SelectSeq([i \in 1..Len(spans) |-> i],
              LAMBDA i : /\ spans[i] # NilPointer
                         /\ (spans[i].Resource # NilPointer) = own)

(* the span of the result is the translation of span i of the input *)
TranslatedFrom(span, spans, i) ==
    /\ span.slot = i
    /\ span.name = truncableStringToStr(spans[i].Name)

(* C38: ocToInternal partitions the spans without loss: SpanCount of the   *)
(* result is the number of non-nil input spans; the spans without a        *)
(* Resource of their own are, in input order, the spans of the first       *)
(* ResourceSpans, which carries the Node and Resource of the batch; each   *)
(* span with a Resource of its own is alone in a separate ResourceSpans    *)
(* with that Resource; and an input with nil Node, nil Resource and no     *)
(* spans gives an ITraceData with no ResourceSpans                         *)
C38_SpansPartitioned ==
    (oc # NoCall /\ oc.op = "ocToInternal") =>
        LET spans == oc.td.Spans
            rs == oc.itd.resourceSpans
            shared == SpanIndexes(spans, FALSE)
            own == SpanIndexes(spans, TRUE)
        IN  /\ SpanCount(oc.itd) = Cardinality({i \in 1..Len(spans) : spans[i] # NilPointer})
            /\ IF oc.td.Node = NilPointer /\ oc.td.Resource = NilPointer /\ Len(spans) = 0
               THEN rs = <<>>
               ELSE /\ Len(rs) = 1 + Len(own)
                    /\ rs[1].resource = ocNodeResourceToInternal(oc.td.Node, oc.td.Resource)
                    /\ Len(rs[1].spans) = Len(shared)
                    /\ \A k \in 1..Len(shared) :
                           TranslatedFrom(rs[1].spans[k], spans, shared[k])
                    /\ \A k \in 1..Len(own) :
                           /\ Len(rs[k + 1].spans) = 1
                           /\ TranslatedFrom(rs[k + 1].spans[1], spans, own[k])
                           /\ rs[k + 1].resource =
                                  ocNodeResourceToInternal(NilPointer, spans[own[k]].Resource)

(* a batch of a span without a Resource of its own, one with, and one      *)
(* without: two ResourceSpans, the first with the two spans in input order *)
C38_Witness ==
    /\ oc # NoCall
    /\ oc.op = "ocToInternal"
    /\ Len(oc.td.Spans) = 3
    /\ oc.td.Spans[1] # NilPointer
    /\ oc.td.Spans[1].Resource = NilPointer
    /\ oc.td.Spans[1].Name = TruncatableString("b")
    /\ oc.td.Spans[2] # NilPointer
    /\ oc.td.Spans[2].Resource # NilPointer
    /\ oc.td.Spans[3] # NilPointer
    /\ oc.td.Spans[3].Resource = NilPointer
    /\ oc.td.Spans[3].Name = TruncatableString("a")
    /\ Len(oc.itd.resourceSpans) = 2
    /\ [k \in 1..2 |-> oc.itd.resourceSpans[1].spans[k].name] = <<"b", "a">>
    /\ SpanCount(oc.itd) = 3

(* the span-kind tag of the attributes holds the string value str *)
TagHolds(ocAttrs, str) ==
    /\ ocAttrs # NilPointer
    /\ TagSpanKind \in DOMAIN ocAttrs.AttributeMap
    /\ ocAttrs.AttributeMap[TagSpanKind].type = "StringValue"
    /\ ocAttrs.AttributeMap[TagSpanKind].StringValue # NilPointer
    /\ ocAttrs.AttributeMap[TagSpanKind].StringValue.Value = str

(* the kind is unspecified and the tag names a consumer or a producer *)
KindFromTag(ocSpan) ==
    /\ ocSpan.Kind = "SPAN_KIND_UNSPECIFIED"
    /\ \/ TagHolds(ocSpan.Attributes, OpenTracingSpanKindConsumer)
       \/ TagHolds(ocSpan.Attributes, OpenTracingSpanKindProducer)

(* C39: ocSpanKindToInternal maps SERVER and CLIENT to themselves; for an  *)
(* unspecified kind it gives CONSUMER or PRODUCER exactly when the         *)
(* span-kind tag holds that string value, and then it removes the tag from *)
(* the attribute map of the source, and the attributes of the translated   *)
(* span do not contain it; in every other case it gives UNSPECIFIED, and   *)
(* whenever the kind is not taken from the tag the source is left as it was *)
C39_SpanKindFromTag ==
    (oc # NoCall /\ oc.op = "ocSpanToInternal") =>
        /\ oc.src.Kind \in {"SERVER", "CLIENT"} => oc.dest.kind = oc.src.Kind
        /\ oc.dest.kind = "CONSUMER" <=>
               /\ oc.src.Kind = "SPAN_KIND_UNSPECIFIED"
               /\ TagHolds(oc.src.Attributes, OpenTracingSpanKindConsumer)
        /\ oc.dest.kind = "PRODUCER" <=>
               /\ oc.src.Kind = "SPAN_KIND_UNSPECIFIED"
               /\ TagHolds(oc.src.Attributes, OpenTracingSpanKindProducer)
        /\ KindFromTag(oc.src) =>
               /\ oc.left.Attributes.AttributeMap =
                      Delete(oc.src.Attributes.AttributeMap, TagSpanKind)
               /\ oc.left = [oc.src EXCEPT !.Attributes.AttributeMap = Delete(@, TagSpanKind)]
               /\ TagSpanKind \notin DOMAIN oc.dest.attributes.attrs
               /\ DOMAIN oc.dest.attributes.attrs =
                      (DOMAIN oc.src.Attributes.AttributeMap) \ {TagSpanKind}
        /\ ~KindFromTag(oc.src) =>
               /\ oc.left = oc.src
               /\ oc.src.Kind \notin {"SERVER", "CLIENT"} =>
                      oc.dest.kind = "SPAN_KIND_UNSPECIFIED"
               /\ oc.src.Attributes # NilPointer =>
                      DOMAIN oc.dest.attributes.attrs = DOMAIN oc.src.Attributes.AttributeMap

(* a span of unspecified kind whose tag says producer and which has one    *)
(* more attribute: the kind is PRODUCER and only the other attribute is    *)
(* left, in the source and in the translated span                          *)
C39_Witness ==
    /\ oc # NoCall
    /\ oc.op = "ocSpanToInternal"
    /\ oc.src.Kind = "SPAN_KIND_UNSPECIFIED"
    /\ TagHolds(oc.src.Attributes, OpenTracingSpanKindProducer)
    /\ DOMAIN oc.src.Attributes.AttributeMap = OcAttributeKeys
    /\ oc.dest.kind = "PRODUCER"
    /\ DOMAIN oc.left.Attributes.AttributeMap = {"http.method"}
    /\ DOMAIN oc.dest.attributes.attrs = {"http.method"}

====
